---- MODULE Spec2Model ----
(***************************************************************************)
(* A model of newa's command pipeline (src/newa/cli.py): the issue         *)
(* reconciliation loop of cmd_jira, the worker pool of cmd_execute and     *)
(* the reporting loop of cmd_report.                                       *)
(***************************************************************************)
EXTENDS Integers, Sequences, FiniteSets, TLC

\* Bounds of the model.
MaxActions == 3     \* issue actions in the issue-config
MaxIssues == 2      \* issues the tracker holds for one (ArtifactJob, action) pair
MaxJobs == 5        \* schedule- files handed to one run of `newa execute`
MaxWorkers == 2     \* --workers
MaxInvocations == 2 \* runs of `newa execute` on one state directory
MaxRerunJobs == 2   \* schedule- files of a state directory that is run again
                    \* (a larger directory is run once)
MaxPolledJobs == 3  \* schedule- files of the runs checked for termination
MaxEvents == 2      \* event- files (ArtifactJobs) in the state directory
MaxRequests == 3    \* requests the recipe generates for one JiraJob
MaxLaunches == 2    \* launches ReportPortal finds for one batch_id
MaxScheduleJobs == 3 \* ScheduleJobs one run of cmd_schedule saves
MaxMainRuns == 2    \* invocations of newa on one parent directory
MaxIds == 2         \* ids of one type given to cmd_event
MaxBuilds == 3      \* builds of one erratum
MaxReleases == 2    \* errata ErrataTool returns for one id

VARIABLES
    \* ---- cmd_jira, the action loop of one ArtifactJob ----
    actions,              \* config.issues: id (the index) -> [parent_id, when]
    recreate,             \* --recreate
    issue_actions,        \* the work queue (ids)
    processed_actions,    \* dict action.id -> Issue, in insertion order
    created_action_ids,   \* ids for which create_issue was called
    endless_loop_check,   \* dict action.id -> queue length at its last deferral
    fatal,                \* the exception that ended the loop, or "none"
    jira_jobs,            \* JiraJobs persisted by save_jira_job
    skipped,              \* history: actions left as their issues are closed
    requeued,             \* history: how often each action was re-appended
    iterations,           \* history: iterations of the while loop so far
    last                  \* the iteration that just ran: its action, what it
                          \* read and the calls it made (NoIteration at the
                          \* head of the loop)

VARIABLES
    \* ---- cmd_execute and its workers ----
    invocation,           \* which run of `newa execute` this is
    continue_execution,   \* --continue
    tf_api,               \* the Testing Farm endpoint of this run's settings
    schedule_list,        \* the schedule- files: their number (jobs 1..n)
    pool_size,            \* --workers
    phase,                \* "running", "done", "error" or "interrupted"
    task_queue,           \* the chunks of schedule_list no process took yet
    worker_pool,          \* process -> the rest of its chunk (head: running)
    raised,               \* starmap holds a worker's exception
    pc,                   \* job -> where its worker call is
    tf_request,           \* job -> the worker's TFRequest (api, uuid)
    execute_job,          \* job -> the worker's ExecuteJob object
    skip_initial_sleep,   \* job -> the worker's flag
    execute_files,        \* the execute- files on disk, by job
    tf_requests,          \* the service: job -> its requests so far (states)
    initiated,            \* history: initiate_tf_request calls of this run
    files_at_start,       \* history: the execute- files when the run began
    saves,                \* history: job -> the records its worker handed
                          \* to save_execute_job in this run, in order
    details,              \* job -> tf_request.details of its worker: the
                          \* state read by the last fetch, "none" if unread
    polls                 \* history: job -> while its worker polls, whether
                          \* time.sleep(delay) came before its first fetch
                          \* and, once there are more, before each later one

VARIABLES
    \* ---- from cmd_jira without --issue-config to cmd_report ----
    command,              \* the command of the pipeline that runs next
    artifact_jobs,        \* the event- files
    issue_config,         \* --issue-config: the actions of the file, or
                          \* empty when the option is not given
    arch,                 \* --arch of cmd_schedule
    recipe,               \* the recipe the JiraJobs name
    create_issue_calls,   \* history: the issues create_issue made
    issue,                \* --issue, a string (empty when not given)
    jira_files,           \* the jira- files
    schedule_files,       \* the schedule- files
    report_execute_jobs,  \* the execute- files cmd_report loads
    jira_request_mapping, \* record_id -> request_id -> launches, in
                          \* insertion order
    reported,             \* history: what cmd_report did for each key
    lookups               \* history: what find_launches_by_attr returned for
                          \* each ExecuteJob

VARIABLES
    \* ---- main and get_state_dir ----
    parent_dir,           \* STATEDIR_PARENT_DIR: "missing", or entry name ->
                          \* [kind, ppid_files]
    state_dirpath,        \* ctx.state_dirpath of the last invocation
    main_error,           \* the exception that ended main, or "none"
    main_runs,            \* history: invocations of newa so far
    last_main             \* history: the options of the last invocation and
                          \* what get_state_dir returned

VARIABLES
    \* ---- cmd_event ----
    event_pc,             \* where cmd_event is
    errata_ids,           \* -e/--erratum, in order
    compose_ids,          \* -c/--compose, in order
    init_files,           \* the events of the init- records
    et_url,               \* ctx.settings.et_url is set
    get_errata_calls,     \* history: the ids ErrataTool was asked for and
                          \* the errata it returned
    errata,               \* the errata of the current id still to process
    erratum_clone,        \* the clone narrowed build by build
    builds,               \* the builds of the docker erratum still to save
    event_files,          \* the event- files: ArtifactJobs in order of saving
    event_error           \* the exception that ended cmd_event, or "none"

jira_vars == <<actions, recreate, issue_actions, processed_actions,
               created_action_ids, endless_loop_check, fatal, jira_jobs,
               skipped, requeued, iterations, last>>

execute_vars == <<invocation, continue_execution, tf_api, schedule_list,
                  pool_size, phase, task_queue, worker_pool, raised, pc,
                  tf_request, execute_job, skip_initial_sleep, execute_files,
                  tf_requests, initiated, files_at_start, saves, details,
                  polls>>

report_vars == <<command, artifact_jobs, issue_config, arch, recipe,
                 create_issue_calls,
                 issue, jira_files, schedule_files,
                 report_execute_jobs, jira_request_mapping, reported, lookups>>

statedir_vars == <<parent_dir, state_dirpath, main_error, main_runs, last_main>>

event_vars == <<event_pc, errata_ids, compose_ids, init_files, et_url,
                get_errata_calls, errata, erratum_clone, builds, event_files,
                event_error>>

entry_vars == <<statedir_vars, event_vars>>

vars == <<jira_vars, execute_vars, report_vars, entry_vars>>

(***************************************************************************)
(* The commands at rest: a specification of one command holds the          *)
(* variables of the others at these values.                                *)
(***************************************************************************)

\* The iteration that just ran, before the loop goes round.
NoIteration ==
    [action |-> 0, outcome |-> "none", related |-> <<>>, on_respin |-> "unset",
     job_recipe |-> FALSE, parent_created |-> FALSE, calls |-> <<>>]

JiraIdle ==
    /\ actions = <<>>
    /\ recreate = FALSE
    /\ issue_actions = <<>>
    /\ processed_actions = <<>>
    /\ created_action_ids = <<>>
    /\ endless_loop_check = <<>>
    /\ fatal = "none"
    /\ jira_jobs = {}
    /\ skipped = {}
    /\ requeued = <<>>
    /\ iterations = 0
    /\ last = NoIteration

ExecuteIdle ==
    /\ invocation = 0
    /\ continue_execution = FALSE
    /\ tf_api = 0
    /\ schedule_list = 0
    /\ pool_size = 0
    /\ phase = "idle"
    /\ task_queue = <<>>
    /\ worker_pool = <<>>
    /\ raised = FALSE
    /\ pc = <<>>
    /\ tf_request = <<>>
    /\ execute_job = <<>>
    /\ skip_initial_sleep = <<>>
    /\ execute_files = <<>>
    /\ tf_requests = <<>>
    /\ initiated = <<>>
    /\ files_at_start = <<>>
    /\ saves = <<>>
    /\ details = <<>>
    /\ polls = <<>>

ReportIdle ==
    /\ command = "none"
    /\ artifact_jobs = <<>>
    /\ issue_config = <<>>
    /\ arch = <<>>
    /\ recipe = [arch |-> <<>>, others |-> 0]
    /\ create_issue_calls = <<>>
    /\ issue = <<>>
    /\ jira_files = <<>>
    /\ schedule_files = <<>>
    /\ report_execute_jobs = <<>>
    /\ jira_request_mapping = <<>>
    /\ reported = <<>>
    /\ lookups = <<>>

\* No invocation yet, on no directory.
NoMain == [use_ppid |-> FALSE, state_dir |-> <<>>, ppid |-> 0,
           returned |-> <<>>, raised |-> "none"]

StateDirIdle ==
    /\ parent_dir = [exists |-> FALSE, entries |-> {}]
    /\ state_dirpath = <<>>
    /\ main_error = "none"
    /\ main_runs = 0
    /\ last_main = NoMain

EventIdle ==
    /\ event_pc = "idle"
    /\ errata_ids = <<>>
    /\ compose_ids = <<>>
    /\ init_files = <<>>
    /\ et_url = FALSE
    /\ get_errata_calls = <<>>
    /\ errata = <<>>
    /\ erratum_clone = <<>>
    /\ builds = <<>>
    /\ event_files = <<>>
    /\ event_error = "none"

(***************************************************************************)
(* main and get_state_dir                                                  *)
(***************************************************************************)

\* The parent process ids of the shells that run newa.
Ppids == {1, 2}

\* The names an entry of STATEDIR_PARENT_DIR has before newa runs.
Names == {<<"r", "u", "n", "-", "1">>, <<"r", "u", "n", "-", "2">>,
          <<"r", "u", "n", "-", "0", "2">>, <<"r", "u", "n", "-", "x">>}

\* An entry of the parent directory: a regular file, or a directory and
\* the ppids whose marker file $PPID.ppid it contains.
Entry(name, kind, ppid_files) ==
    [name |-> name, kind |-> kind, ppid_files |-> ppid_files]
EntryOptions ==
    {[kind |-> "absent", ppid_files |-> {}], [kind |-> "file", ppid_files |-> {}]}
    \cup {[kind |-> "dir", ppid_files |-> m] : m \in SUBSET Ppids}
NoParentDir == [exists |-> FALSE, entries |-> {}]
ParentDirs ==
    {NoParentDir}
    \cup {[exists |-> TRUE,
           entries |-> {Entry(n, f[n].kind, f[n].ppid_files) :
                           n \in {m \in Names : f[m].kind # "absent"}}] :
             f \in [Names -> EntryOptions]}

\* int() and str() of decimal numbers.
DecimalDigits == <<"0", "1", "2", "3", "4", "5", "6", "7", "8", "9">>
IsDigit(c) == \E d \in 1..Len(DecimalDigits) : DecimalDigits[d] = c
DigitValue(c) == (CHOOSE d \in 1..Len(DecimalDigits) : DecimalDigits[d] = c) - 1
RECURSIVE int(_)
int(digits) ==
    IF digits = <<>> THEN 0
    ELSE int(SubSeq(digits, 1, Len(digits) - 1)) * 10
         + DigitValue(digits[Len(digits)])
RECURSIVE str(_)
str(n) ==
    IF n < 10 THEN <<DecimalDigits[n + 1]>>
    ELSE str(n \div 10) \o <<DecimalDigits[(n % 10) + 1]>>

\* STATEDIR_NAME_PATTERN = r'^run-([0-9]+)$': re.match and r.group(1)
Prefix == <<"r", "u", "n", "-">>
STATEDIR_NAME_PATTERN(name) ==
    /\ Len(name) > Len(Prefix)
    /\ SubSeq(name, 1, Len(Prefix)) = Prefix
    /\ \A i \in (Len(Prefix) + 1)..Len(name) : IsDigit(name[i])
group(name) == SubSeq(name, Len(Prefix) + 1, Len(name))

\* f'run-{counter}'
run(counter) == Prefix \o str(counter)

\* ppid_file.exists()
ppid_file_exists_Always(entry, ppid) == TRUE
ppid_file_exists(entry, ppid) == ppid \in entry.ppid_files

\* The for loop over os.scandir: the largest c of the directories that
\* match the pattern (and hold the ppid file, with use_ppid); 0 if none.
Largest(numbers) == CHOOSE n \in numbers : \A k \in numbers : n >= k
counter(dir, use_ppid, ppid) ==
    Largest({0} \cup
            {int(group(e.name)) :
                e \in {d \in dir.entries :
                          /\ d.kind = "dir"
                          /\ STATEDIR_NAME_PATTERN(d.name)
                          /\ use_ppid => ppid_file_exists(d, ppid)}})

\* get_state_dir(use_ppid): the path returned, or the exception raised.
get_state_dir(dir, use_ppid, ppid) ==
    IF ~dir.exists
    THEN IF use_ppid THEN [raised |-> "does not exist", path |-> <<>>]
         ELSE [raised |-> "none", path |-> run(1)]
    ELSE IF use_ppid
         THEN IF counter(dir, TRUE, ppid) # 0
              THEN [raised |-> "none", path |-> run(counter(dir, TRUE, ppid))]
              ELSE [raised |-> "ppid file not found", path |-> <<>>]
    ELSE [raised |-> "none", path |-> run(counter(dir, FALSE, ppid) + 1)]

\* The entry of that name, if any.
Found(dir, name) == {e \in dir.entries : e.name = name}

\* ctx.state_dirpath.mkdir(parents=True) if the path does not exist, then
\* the empty ppid file is created in it.
with_ppid_file(dir, name, ppid) ==
    [exists |-> TRUE,
     entries |->
        {e \in dir.entries : e.name # name}
        \cup {Entry(name, "dir",
                    {ppid} \cup UNION {e.ppid_files : e \in Found(dir, name)})}]

\* The first invocation of newa, on any parent directory.
InitStateDir ==
    /\ parent_dir \in ParentDirs
    /\ state_dirpath = <<>>
    /\ main_error = "none"
    /\ main_runs = 0
    /\ last_main = NoMain
    /\ JiraIdle
    /\ ExecuteIdle
    /\ ReportIdle
    /\ EventIdle

\* main up to the ppid file, for the options --state-dir and
\* --prev-state-dir and the shell that runs it.
main(state_dir, prev_state_dir, ppid) ==
    /\ main_runs < MaxMainRuns
    /\ main_runs' = main_runs + 1
    /\ LET got == IF prev_state_dir /\ state_dir # <<>>
                  THEN [raised |-> "use either", path |-> <<>>]
                  ELSE IF prev_state_dir
                       THEN get_state_dir(parent_dir, TRUE, ppid)
                  ELSE IF state_dir = <<>>
                       THEN get_state_dir(parent_dir, FALSE, ppid)
                  ELSE [raised |-> "none", path |-> state_dir]
           is_file == \E e \in Found(parent_dir, got.path) : e.kind = "file"
       IN /\ last_main' = [use_ppid |-> prev_state_dir, state_dir |-> state_dir,
                           ppid |-> ppid, returned |-> got.path,
                           raised |-> got.raised]
          /\ state_dirpath' = got.path
          /\ main_error' = IF got.raised # "none" THEN got.raised
                           ELSE IF is_file THEN "not a directory"
                           ELSE "none"
          /\ parent_dir' = IF got.raised # "none" \/ is_file THEN parent_dir
                           ELSE with_ppid_file(parent_dir, got.path, ppid)
    /\ UNCHANGED <<jira_vars, execute_vars, report_vars, event_vars>>

\* newa --prev-state-dir ..., newa --state-dir DIR ..., newa ...
MainPrevStateDir ==
    \E ppid \in Ppids, state_dir \in {<<>>} \cup Names :
        main(state_dir, TRUE, ppid)
MainStateDir ==
    \E ppid \in Ppids, state_dir \in Names : main(state_dir, FALSE, ppid)
MainNewStateDir == \E ppid \in Ppids : main(<<>>, FALSE, ppid)

NextStateDir ==
    \/ MainPrevStateDir
    \/ MainStateDir
    \/ MainNewStateDir

SpecStateDir == InitStateDir /\ [][NextStateDir]_vars

(***************************************************************************)
(* cmd_event                                                               *)
(***************************************************************************)

\* Event(type_=..., id=...)
EventOf(type_, id) == [type_ |-> type_, id |-> id]

\* The ids on the command line and the events of the init- records.
IdLists == {[i \in 1..n |-> i] : n \in 0..MaxIds}
InitRecords ==
    {<<>>, <<EventOf("erratum", 1)>>, <<EventOf("compose", 1)>>,
     <<EventOf("erratum", 1), EventOf("compose", 2)>>}

\* What ErrataTool knows: the content types, the releases and the builds
\* (name-version-release) of an advisory.
ErratumContentType == {"rpm", "module", "docker"}
Releases == <<<<"R", "H", "E", "L", "-", "9", ".", "4", ".", "0", ".", "G", "A">>,
              <<"R", "H", "E", "L", "-", "1", "0", ".", "0", ".", "B", "E", "T", "A">>>>
Builds == <<<<"p", "k", "g", "-", "1", ".", "0", "-", "1">>,
            <<"m", "y", "-", "i", "m", "g", "-", "2", ".", "1", "-", "3">>,
            <<"t", "o", "o", "l", "-", "3", "-", "2">>>>

\* NVRParser(build).name: the build without its version and release.
Dashes(text) == {i \in 1..Len(text) : text[i] = "-"}
NVRParser_name_Whole(build) == build
NVRParser_name(build) ==
    LET release_at ==
            CHOOSE i \in Dashes(build) : \A k \in Dashes(build) : i >= k
        version_at ==
            CHOOSE i \in Dashes(build) \ {release_at} :
                \A k \in Dashes(build) \ {release_at} : i >= k
    IN SubSeq(build, 1, version_at - 1)

\* An erratum of ErrataTool with the first n builds, in the k-th release.
ErrataToolErratum(id, content_type, k, n) ==
    [id |-> id, content_type |-> content_type, release |-> Releases[k],
     builds |-> SubSeq(Builds, 1, n),
     components |-> [b \in 1..n |-> NVRParser_name(Builds[b])]]

\* ErrataTool(url=et_url).get_errata(event): one erratum for each release.
ErrataLists(id) ==
    {[k \in 1..r |-> ErrataToolErratum(id, content_type, k, n)] :
        content_type \in ErratumContentType, r \in 1..MaxReleases,
        n \in 1..MaxBuilds}

\* str.strip(), str.endswith(), str.replace()
RECURSIVE strip(_)
strip(text) ==
    IF text # <<>> /\ Head(text) = " " THEN strip(Tail(text))
    ELSE IF text # <<>> /\ text[Len(text)] = " "
         THEN strip(SubSeq(text, 1, Len(text) - 1))
    ELSE text
endswith(text, suffix) ==
    /\ Len(text) >= Len(suffix)
    /\ SubSeq(text, Len(text) - Len(suffix) + 1, Len(text)) = suffix
RECURSIVE replace(_, _, _)
replace(text, old, new) ==
    IF Len(text) < Len(old) THEN text
    ELSE IF SubSeq(text, 1, Len(old)) = old
         THEN new \o replace(SubSeq(text, Len(old) + 1, Len(text)), old, new)
    ELSE <<Head(text)>> \o replace(Tail(text), old, new)

\* The compose of an erratum: the release without '.GA', '-Nightly'
\* appended, 'RHEL-10.0.BETA' replaced by 'RHEL-10-Beta'.
compose_of(erratum) ==
    LET compose == strip(erratum.release)
        without_ga == IF endswith(compose, <<".", "G", "A">>)
                      THEN SubSeq(compose, 1, Len(compose) - 3)
                      ELSE compose
    IN replace(without_ga \o <<"-", "N", "i", "g", "h", "t", "l", "y">>,
               <<"R", "H", "E", "L", "-", "1", "0", ".", "0", ".", "B", "E", "T", "A">>,
               <<"R", "H", "E", "L", "-", "1", "0", "-", "B", "e", "t", "a">>)

\* ArtifactJob(event=event, erratum=..., compose=Compose(id=...)) as it is
\* written to its event- file.
NoEventErratum ==
    [id |-> 0, content_type |-> "none", release |-> <<>>, builds |-> <<>>,
     components |-> <<>>]
EventArtifactJob(event, erratum, compose) ==
    [event |-> event, erratum |-> erratum, compose |-> compose]

\* Compose ids are names.
compose_name(id) == <<"C", "-", DecimalDigits[id + 1]>>

\* cmd_event is entered with its options, init- records and settings.
InitEvent ==
    /\ event_pc = "start"
    /\ errata_ids \in IdLists
    /\ compose_ids \in IdLists
    /\ init_files \in InitRecords
    /\ et_url \in BOOLEAN
    /\ get_errata_calls = <<>>
    /\ errata = <<>>
    /\ erratum_clone = <<>>
    /\ builds = <<>>
    /\ event_files = <<>>
    /\ event_error = "none"
    /\ JiraIdle
    /\ ExecuteIdle
    /\ ReportIdle
    /\ StateDirIdle

\* if not errata_ids and not compose_ids: the ids of the init- records
ids_of(given, other, type_) ==
    IF given = <<>> /\ other = <<>>
    THEN LET events == SelectSeq(init_files, LAMBDA e : e.type_ = type_)
         IN [i \in 1..Len(events) |-> events[i].id]
    ELSE given

\* if errata_ids: the Errata Tool URL is asked for
process_errata_Never(ids) == FALSE
process_errata(ids) == ids # <<>>

\* cmd_event up to the loops: 'Missing event IDs!'
MissingEventIds ==
    /\ event_pc = "start"
    /\ ids_of(errata_ids, compose_ids, "erratum") = <<>>
    /\ ids_of(compose_ids, errata_ids, "compose") = <<>>
    /\ event_error' = "Missing event IDs!"
    /\ event_pc' = "error"
    /\ UNCHANGED <<errata_ids, compose_ids, init_files, et_url,
                   get_errata_calls, errata, erratum_clone, builds,
                   event_files>>
    /\ UNCHANGED <<jira_vars, execute_vars, report_vars, statedir_vars>>

\* 'Errata Tool URL is not configured!'
ErrataToolNotConfigured ==
    /\ event_pc = "start"
    /\ process_errata(ids_of(errata_ids, compose_ids, "erratum"))
    /\ ~et_url
    /\ errata_ids' = ids_of(errata_ids, compose_ids, "erratum")
    /\ compose_ids' = ids_of(compose_ids, errata_ids, "compose")
    /\ event_error' = "Errata Tool URL is not configured!"
    /\ event_pc' = "error"
    /\ UNCHANGED <<init_files, et_url, get_errata_calls, errata, erratum_clone,
                   builds, event_files>>
    /\ UNCHANGED <<jira_vars, execute_vars, report_vars, statedir_vars>>

\* The ids are there, and the Errata Tool URL if one is needed.
EnterLoops ==
    /\ event_pc = "start"
    /\ \/ ids_of(errata_ids, compose_ids, "erratum") # <<>>
       \/ ids_of(compose_ids, errata_ids, "compose") # <<>>
    /\ process_errata(ids_of(errata_ids, compose_ids, "erratum")) => et_url
    /\ errata_ids' = ids_of(errata_ids, compose_ids, "erratum")
    /\ compose_ids' = ids_of(compose_ids, errata_ids, "compose")
    /\ event_pc' = "errata"
    /\ UNCHANGED <<init_files, et_url, get_errata_calls, errata, erratum_clone,
                   builds, event_files, event_error>>
    /\ UNCHANGED <<jira_vars, execute_vars, report_vars, statedir_vars>>

\* errata = ErrataTool(url=et_url).get_errata(event) for the next id
GetErrata ==
    /\ event_pc = "errata"
    /\ errata = <<>>
    /\ Len(get_errata_calls) < Len(errata_ids)
    /\ LET erratum_id == errata_ids[Len(get_errata_calls) + 1]
       IN /\ errata' \in ErrataLists(erratum_id)
          /\ get_errata_calls' =
                Append(get_errata_calls,
                       [id |-> erratum_id, errata |-> errata'])
    /\ UNCHANGED <<event_pc, errata_ids, compose_ids, init_files, et_url,
                   erratum_clone, builds, event_files, event_error>>
    /\ UNCHANGED <<jira_vars, execute_vars, report_vars, statedir_vars>>

\* The event of the erratum id being processed.
current_event ==
    EventOf("erratum", get_errata_calls[Len(get_errata_calls)].id)

\* RPM or module content: one ArtifactJob for the erratum.
SaveErratum ==
    /\ event_pc = "errata"
    /\ errata # <<>>
    /\ Head(errata).content_type \in {"rpm", "module"}
    /\ event_files' = Append(event_files,
                             EventArtifactJob(current_event, Head(errata),
                                              compose_of(Head(errata))))
    /\ errata' = Tail(errata)
    /\ UNCHANGED <<event_pc, errata_ids, compose_ids, init_files, et_url,
                   get_errata_calls, erratum_clone, builds, event_error>>
    /\ UNCHANGED <<jira_vars, execute_vars, report_vars, statedir_vars>>

\* Docker content: erratum_clone = erratum.clone()
CloneErratum ==
    /\ event_pc = "errata"
    /\ errata # <<>>
    /\ Head(errata).content_type = "docker"
    /\ erratum_clone' = Head(errata)
    /\ builds' = Head(errata).builds
    /\ event_pc' = "builds"
    /\ UNCHANGED <<errata_ids, compose_ids, init_files, et_url,
                   get_errata_calls, errata, event_files, event_error>>
    /\ UNCHANGED <<jira_vars, execute_vars, report_vars, statedir_vars>>

\* erratum_clone.builds = [build]; erratum_clone.components = [name]
narrowed(clone, build) ==
    [clone EXCEPT !.builds = <<build>>,
                  !.components = <<NVRParser_name(build)>>]

\* for build in erratum.builds: the clone is narrowed to the build and the
\* ArtifactJob that holds it is saved.
SaveBuild ==
    /\ event_pc = "builds"
    /\ builds # <<>>
    /\ erratum_clone' = narrowed(erratum_clone, Head(builds))
    /\ event_files' = Append(event_files,
                             EventArtifactJob(current_event, erratum_clone',
                                              compose_of(Head(errata))))
    /\ builds' = Tail(builds)
    /\ UNCHANGED <<event_pc, errata_ids, compose_ids, init_files, et_url,
                   get_errata_calls, errata, event_error>>
    /\ UNCHANGED <<jira_vars, execute_vars, report_vars, statedir_vars>>

\* The builds of the erratum are done.
NextErratum ==
    /\ event_pc = "builds"
    /\ builds = <<>>
    /\ errata' = Tail(errata)
    /\ erratum_clone' = <<>>
    /\ event_pc' = "errata"
    /\ UNCHANGED <<errata_ids, compose_ids, init_files, et_url,
                   get_errata_calls, builds, event_files, event_error>>
    /\ UNCHANGED <<jira_vars, execute_vars, report_vars, statedir_vars>>

\* The errata ids are done: on to the compose ids.
ErrataDone ==
    /\ event_pc = "errata"
    /\ errata = <<>>
    /\ Len(get_errata_calls) = Len(errata_ids)
    /\ event_pc' = "composes"
    /\ UNCHANGED <<errata_ids, compose_ids, init_files, et_url,
                   get_errata_calls, errata, erratum_clone, builds,
                   event_files, event_error>>
    /\ UNCHANGED <<jira_vars, execute_vars, report_vars, statedir_vars>>

\* The compose ids for which an ArtifactJob is saved already.
ComposesSaved ==
    Len(SelectSeq(event_files, LAMBDA job : job.event.type_ = "compose"))

\* for compose_id in compose_ids: one ArtifactJob without erratum
SaveCompose ==
    /\ event_pc = "composes"
    /\ ComposesSaved < Len(compose_ids)
    /\ LET compose_id == compose_name(compose_ids[ComposesSaved + 1])
       IN event_files' =
             Append(event_files,
                    EventArtifactJob(EventOf("compose", compose_id),
                                     NoEventErratum, compose_id))
    /\ UNCHANGED <<event_pc, errata_ids, compose_ids, init_files, et_url,
                   get_errata_calls, errata, erratum_clone, builds,
                   event_error>>
    /\ UNCHANGED <<jira_vars, execute_vars, report_vars, statedir_vars>>

\* cmd_event returns.
EventReturns ==
    /\ event_pc = "composes"
    /\ ComposesSaved = Len(compose_ids)
    /\ event_pc' = "done"
    /\ UNCHANGED <<errata_ids, compose_ids, init_files, et_url,
                   get_errata_calls, errata, erratum_clone, builds,
                   event_files, event_error>>
    /\ UNCHANGED <<jira_vars, execute_vars, report_vars, statedir_vars>>

NextEvent ==
    \/ MissingEventIds
    \/ ErrataToolNotConfigured
    \/ EnterLoops
    \/ GetErrata
    \/ SaveErratum
    \/ CloneErratum
    \/ SaveBuild
    \/ NextErratum
    \/ ErrataDone
    \/ SaveCompose
    \/ EventReturns

SpecEvent == InitEvent /\ [][NextEvent]_vars

(***************************************************************************)
(* cmd_jira                                                                *)
(***************************************************************************)

\* Python's None for an action without parent_id.
None == 0

\* OnRespinAction, and "unset" for an action that sets no on_respin.
OnRespinAction == {"keep", "close", "unset"}

\* The key of an issue in the tracker: the k-th issue related to action a;
\* key 0 is the issue create_issue makes for a in this run.
IssueKey(a, k) == [action |-> a, key |-> k]
NoIssue == IssueKey(0, 0)

\* Issue(id, closed=...)
Issue(id, closed) == [id |-> id, closed |-> closed]

\* What the tracker can hold for one action: up to MaxIssues issues, each
\* with or without the identifier token of the current respin in its
\* description, opened or closed.
\* The order in which the tracker lists them changes nothing the loop does
\* (it only tells zero, one and more candidates apart), so one order stands
\* for all: opened before closed, with the token before without.
IssueRank(i) ==
    (IF i.status = "opened" THEN 0 ELSE 2) + (IF i.token THEN 0 ELSE 1)
RelatedIssues ==
    {r \in UNION {[1..n -> [token : BOOLEAN, status : {"opened", "closed"}]] :
                  n \in 0..MaxIssues} :
        \A i \in 1..(Len(r) - 1) : IssueRank(r[i]) <= IssueRank(r[i + 1])}

\* The issue-config: ids are 1..n in file order, parent_id is None, the id
\* of an action of the file (itself included) or an id the file lacks (n+1).
\* when is the value of `not action.when or eval_test(action.when, ...)`.
IssueConfigs ==
    UNION {[1..n -> [parent_id : 0..(n + 1), when : BOOLEAN]] :
           n \in 1..MaxActions}

\* A Python dict kept as the sequence of its items, in insertion order.
InDict(d, k) == \E i \in 1..Len(d) : d[i].id = k
DictGet(d, k) == d[CHOOSE i \in 1..Len(d) : d[i].id = k].issue
DictPut(d, k, v) ==
    IF InDict(d, k)
    THEN [i \in 1..Len(d) |-> IF d[i].id = k THEN [id |-> k, issue |-> v] ELSE d[i]]
    ELSE Append(d, [id |-> k, issue |-> v])

InList(s, x) == \E i \in 1..Len(s) : s[i] = x

\* A tracker or persistence call of one iteration.
Call(op, target, by) == [op |-> op, issue |-> target, by |-> by]

\* while issue_actions: action = issue_actions.pop(0)
LoopRuns == issue_actions # <<>> /\ fatal = "none" /\ last = NoIteration
action == Head(issue_actions)
popped == Tail(issue_actions)

\* action.when and not eval_test(action.when, ...)
Irrelevant(a) == ~actions[a].when

\* action.parent_id and action.parent_id not in processed_actions
ParentMissing_NoGate(a) == FALSE
ParentMissing(a) ==
    /\ actions[a].parent_id # None
    /\ ~InDict(processed_actions, actions[a].parent_id)

queue_length == Len(popped)
\* endless_loop_check.get(action.id, 0)
last_queue_length(a) ==
    IF a \in DOMAIN endless_loop_check THEN endless_loop_check[a] ELSE 0

\* last_queue_length == queue_length: no progress since the last deferral
NoProgress_Never(a) == FALSE
NoProgress_AtOnce(a) == TRUE
NoProgress(a) == last_queue_length(a) = queue_length

\* The tracker's issues related to (artifact_job, action), with their keys.
tracker_issues(a, related) ==
    [i \in 1..Len(related) |->
        [key |-> IssueKey(a, i), token |-> related[i].token,
         status |-> related[i].status]]

\* jira_handler.get_related_issues(action, all_respins=True, closed=...):
\* the related issues, the closed ones only when asked for.
get_related_issues(issues, closed) ==
    LET Wanted(x) == closed \/ x.status = "opened"
    IN SelectSeq(issues, Wanted)

\* if recreate: ...closed=False else: ...closed=True
search(issues) ==
    IF recreate THEN get_related_issues(issues, FALSE)
    ELSE get_related_issues(issues, TRUE)

\* action.parent_id in created_action_ids (false without parent_id)
parent_created(a) ==
    /\ actions[a].parent_id # None
    /\ InList(created_action_ids, actions[a].parent_id)

\* is_new: the description holds this action's newa_id, and the action has
\* no parent or its parent was not created in this run (recreated says it
\* was).
is_new_TokenOnly(jira_issue, recreated) == jira_issue.token
is_new(jira_issue, recreated) == jira_issue.token /\ ~recreated

\* The for loop over search_result.items(): new_issues and old_issues.
new_issues_found(search_result, recreated) ==
    LET New(x) == is_new(x, recreated)
        sel == SelectSeq(search_result, New)
    IN [i \in 1..Len(sel) |-> Issue(sel[i].key, sel[i].status = "closed")]

old_issues_found(search_result, recreated) ==
    LET Old(x) == ~is_new(x, recreated) /\ x.status = "opened"
        sel == SelectSeq(search_result, Old)
    IN [i \in 1..Len(sel) |-> Issue(sel[i].key, FALSE)]

\* if old_issues and action.on_respin == OnRespinAction.KEEP
keep_old_Never(old_issues, on_respin) == FALSE
keep_old(old_issues, on_respin) == old_issues # <<>> /\ on_respin = "keep"

\* new_issues.extend(old_issues); old_issues = []
new_issues_kept(search_result, recreated, on_respin) ==
    IF keep_old(old_issues_found(search_result, recreated), on_respin)
    THEN new_issues_found(search_result, recreated)
            \o old_issues_found(search_result, recreated)
    ELSE new_issues_found(search_result, recreated)

old_issues_left(search_result, recreated, on_respin) ==
    IF keep_old(old_issues_found(search_result, recreated), on_respin)
    THEN <<>>
    ELSE old_issues_found(search_result, recreated)

NotClosed(i) == ~i.closed
opened_issues(new_issues) == SelectSeq(new_issues, NotClosed)

\* if new_issues and (not recreate): ... if not opened_issues: continue
already_closed_Never(new_issues) == FALSE
already_closed(new_issues) ==
    /\ new_issues # <<>>
    /\ ~recreate
    /\ opened_issues(new_issues) = <<>>

\* new_issues as the resolution step sees it: new_issues = opened_issues
new_issues_open(search_result, recreated, on_respin) ==
    LET new_issues == new_issues_kept(search_result, recreated, on_respin)
    IN IF new_issues # <<>> /\ ~recreate THEN opened_issues(new_issues)
       ELSE new_issues

\* The three branches of the resolution step.
Resolution_TakeFirst(new_issues) ==
    IF new_issues = <<>> THEN "create" ELSE "reuse"
Resolution(new_issues) ==
    IF new_issues = <<>> THEN "create"
    ELSE IF Len(new_issues) = 1 THEN "reuse"
    ELSE "more_than_one"

\* if old_issues: if action.on_respin != OnRespinAction.CLOSE: raise
respin_error(old_issues, on_respin) ==
    IF old_issues # <<>> /\ on_respin # "close" THEN "invalid_respin"
    ELSE "none"

\* for old_issue in old_issues: jira_handler.drop_obsoleted_issue(...)
drop_calls_None(old_issues, on_respin, obsoleted_by) == <<>>
drop_calls(old_issues, on_respin, obsoleted_by) ==
    IF old_issues # <<>> /\ on_respin = "close"
    THEN [i \in 1..Len(old_issues) |->
             Call("drop", old_issues[i].id, obsoleted_by)]
    ELSE <<>>

\* if action.job_recipe: ctx.save_jira_job('jira-', jira_job)
save_calls(job_recipe, new_issue) ==
    IF job_recipe THEN <<Call("save", new_issue.id, NoIssue)>> ELSE <<>>

\* The issues of the action in the tracker after the iteration: the issue
\* create_issue made carries the token, drop_obsoleted_issue closed the
\* dropped ones, and refresh_issue may have written the token into the
\* refreshed one (stamped) or not.
tracker_after(a, related, calls, stamped) ==
    LET base == tracker_issues(a, related)
        Dropped(k) == \E i \in 1..Len(calls) :
                          calls[i].op = "drop" /\ calls[i].issue = k
        Refreshed(k) == \E i \in 1..Len(calls) :
                          calls[i].op = "refresh" /\ calls[i].issue = k
        Created == \E i \in 1..Len(calls) : calls[i].op = "create"
        kept == [i \in 1..Len(base) |->
                   [key |-> base[i].key,
                    token |-> base[i].token \/ (stamped /\ Refreshed(base[i].key)),
                    status |-> IF Dropped(base[i].key) THEN "closed"
                               ELSE base[i].status]]
    IN IF Created
       THEN Append(kept, [key |-> IssueKey(a, 0), token |-> TRUE,
                          status |-> "opened"])
       ELSE kept

Step(a, outcome, related, on_respin, job_recipe, calls) ==
    [action |-> a, outcome |-> outcome, related |-> related,
     on_respin |-> on_respin, job_recipe |-> job_recipe,
     parent_created |-> parent_created(a), calls |-> calls]

InitJira ==
    /\ actions \in IssueConfigs
    /\ recreate \in BOOLEAN
    /\ issue_actions = [i \in 1..Len(actions) |-> i]
    /\ processed_actions = <<>>
    /\ created_action_ids = <<>>
    /\ endless_loop_check = <<>>
    /\ fatal = "none"
    /\ jira_jobs = {}
    /\ skipped = {}
    /\ requeued = [i \in 1..Len(actions) |-> 0]
    /\ iterations = 0
    /\ last = NoIteration
    /\ ExecuteIdle
    /\ ReportIdle
    /\ StateDirIdle
    /\ EventIdle

\* endless_loop_check[action.id] = queue_length
remember_queue_length_Only(a) == [x \in {a} |-> queue_length]
remember_queue_length(a) ==
    [x \in DOMAIN endless_loop_check \cup {a} |->
        IF x = a THEN queue_length ELSE endless_loop_check[x]]

\* The action is irrelevant: it is dropped.
SkipIrrelevant ==
    /\ LoopRuns
    /\ Irrelevant(action)
    /\ issue_actions' = popped
    /\ iterations' = iterations + 1
    /\ last' = Step(action, "irrelevant", <<>>, "unset", FALSE, <<>>)
    /\ UNCHANGED <<actions, recreate, processed_actions, created_action_ids,
                   endless_loop_check, fatal, jira_jobs, skipped, requeued>>
    /\ UNCHANGED <<execute_vars, report_vars, entry_vars>>

\* The parent is not processed yet: the action goes back to the end of the
\* queue.
DeferAction ==
    /\ LoopRuns
    /\ ~Irrelevant(action)
    /\ ParentMissing(action)
    /\ ~NoProgress(action)
    /\ endless_loop_check' = remember_queue_length(action)
    /\ issue_actions' = Append(popped, action)
    /\ requeued' = [requeued EXCEPT ![action] = @ + 1]
    /\ iterations' = iterations + 1
    /\ last' = Step(action, "deferred", <<>>, "unset", FALSE, <<>>)
    /\ UNCHANGED <<actions, recreate, processed_actions, created_action_ids,
                   fatal, jira_jobs, skipped>>
    /\ UNCHANGED <<execute_vars, report_vars, entry_vars>>

\* raise Exception(f"Parent {action.parent_id} for {action.id} not found!")
ParentNotFound ==
    /\ LoopRuns
    /\ ~Irrelevant(action)
    /\ ParentMissing(action)
    /\ NoProgress(action)
    /\ issue_actions' = popped
    /\ fatal' = "parent_not_found"
    /\ iterations' = iterations + 1
    /\ last' = Step(action, "parent_not_found", <<>>, "unset", FALSE, <<>>)
    /\ UNCHANGED <<actions, recreate, processed_actions, created_action_ids,
                   endless_loop_check, jira_jobs, skipped, requeued>>
    /\ UNCHANGED <<execute_vars, report_vars, entry_vars>>

\* The action passed the when test and the parent gate.
Reaches(a) == LoopRuns /\ ~Irrelevant(a) /\ ~ParentMissing(a)

\* The new issues are all closed: nothing more to do for the action.
AlreadyClosed ==
    /\ Reaches(action)
    /\ \E related \in RelatedIssues, on_respin \in OnRespinAction :
          LET sr == search(tracker_issues(action, related))
              calls == <<Call("search", NoIssue, NoIssue)>>
          IN /\ already_closed(new_issues_kept(sr, parent_created(action), on_respin))
             /\ last' = Step(action, "already_closed", related, on_respin,
                             FALSE, calls)
    /\ issue_actions' = popped
    /\ skipped' = skipped \cup {action}
    /\ iterations' = iterations + 1
    /\ UNCHANGED <<actions, recreate, processed_actions, created_action_ids,
                   endless_loop_check, fatal, jira_jobs, requeued>>
    /\ UNCHANGED <<execute_vars, report_vars, entry_vars>>

\* No new issue: create one, then persist the JiraJob and close the old
\* issues.
CreateIssue ==
    /\ Reaches(action)
    /\ \E related \in RelatedIssues, on_respin \in OnRespinAction,
          job_recipe \in BOOLEAN :
          LET sr == search(tracker_issues(action, related))
              new_issues == new_issues_open(sr, parent_created(action), on_respin)
              old_issues == old_issues_left(sr, parent_created(action), on_respin)
              parent == IF InDict(processed_actions, actions[action].parent_id)
                        THEN DictGet(processed_actions, actions[action].parent_id).id
                        ELSE NoIssue
              new_issue == Issue(IssueKey(action, 0), FALSE)
              processed == DictPut(processed_actions, action, new_issue)
              calls == <<Call("search", NoIssue, NoIssue),
                         Call("create", new_issue.id, parent)>>
                       \o save_calls(job_recipe, new_issue)
                       \o drop_calls(old_issues, on_respin,
                                     DictGet(processed, action).id)
          IN /\ ~already_closed(new_issues_kept(sr, parent_created(action), on_respin))
             /\ Resolution(new_issues) = "create"
             /\ processed_actions' = processed
             /\ created_action_ids' = Append(created_action_ids, action)
             /\ jira_jobs' = IF job_recipe
                             THEN jira_jobs \cup {[action |-> action, jira |-> new_issue.id]}
                             ELSE jira_jobs
             /\ fatal' = respin_error(old_issues, on_respin)
             /\ last' = Step(action, "created", related, on_respin, job_recipe,
                             calls)
    /\ issue_actions' = popped
    /\ iterations' = iterations + 1
    /\ UNCHANGED <<actions, recreate, endless_loop_check, skipped, requeued>>
    /\ UNCHANGED <<execute_vars, report_vars, entry_vars>>

\* Exactly one new issue: re-use and refresh it, then persist the JiraJob
\* and close the old issues.
ReuseIssue ==
    /\ Reaches(action)
    /\ \E related \in RelatedIssues, on_respin \in OnRespinAction,
          job_recipe \in BOOLEAN :
          LET sr == search(tracker_issues(action, related))
              new_issues == new_issues_open(sr, parent_created(action), on_respin)
              old_issues == old_issues_left(sr, parent_created(action), on_respin)
              new_issue == new_issues[1]
              processed == DictPut(processed_actions, action, new_issue)
              calls == <<Call("search", NoIssue, NoIssue),
                         Call("refresh", new_issue.id, NoIssue)>>
                       \o save_calls(job_recipe, new_issue)
                       \o drop_calls(old_issues, on_respin,
                                     DictGet(processed, action).id)
          IN /\ ~already_closed(new_issues_kept(sr, parent_created(action), on_respin))
             /\ Resolution(new_issues) = "reuse"
             /\ processed_actions' = processed
             /\ jira_jobs' = IF job_recipe
                             THEN jira_jobs \cup {[action |-> action, jira |-> new_issue.id]}
                             ELSE jira_jobs
             /\ fatal' = respin_error(old_issues, on_respin)
             /\ last' = Step(action, "reused", related, on_respin, job_recipe,
                             calls)
    /\ issue_actions' = popped
    /\ iterations' = iterations + 1
    /\ UNCHANGED <<actions, recreate, created_action_ids, endless_loop_check,
                   skipped, requeued>>
    /\ UNCHANGED <<execute_vars, report_vars, entry_vars>>

\* raise Exception(f"More than one new {action.id} found ({new_issues})!")
MoreThanOneNew ==
    /\ Reaches(action)
    /\ \E related \in RelatedIssues, on_respin \in OnRespinAction :
          LET sr == search(tracker_issues(action, related))
              new_issues == new_issues_open(sr, parent_created(action), on_respin)
              calls == <<Call("search", NoIssue, NoIssue)>>
          IN /\ ~already_closed(new_issues_kept(sr, parent_created(action), on_respin))
             /\ Resolution(new_issues) = "more_than_one"
             /\ last' = Step(action, "more_than_one", related, on_respin,
                             FALSE, calls)
    /\ issue_actions' = popped
    /\ fatal' = "more_than_one"
    /\ iterations' = iterations + 1
    /\ UNCHANGED <<actions, recreate, processed_actions, created_action_ids,
                   endless_loop_check, jira_jobs, skipped, requeued>>
    /\ UNCHANGED <<execute_vars, report_vars, entry_vars>>

\* The end of an iteration (its continue or the end of its body): the loop
\* goes round and the iteration's locals are gone.
LoopBack ==
    /\ last # NoIteration
    /\ fatal = "none"
    /\ last' = NoIteration
    /\ UNCHANGED <<actions, recreate, issue_actions, processed_actions,
                   created_action_ids, endless_loop_check, fatal, jira_jobs,
                   skipped, requeued, iterations>>
    /\ UNCHANGED <<execute_vars, report_vars, entry_vars>>

NextJira ==
    \/ LoopBack
    \/ SkipIrrelevant
    \/ DeferAction
    \/ ParentNotFound
    \/ AlreadyClosed
    \/ CreateIssue
    \/ ReuseIssue
    \/ MoreThanOneNew

SpecJira == InitJira /\ [][NextJira]_vars

(***************************************************************************)
(* Properties of cmd_jira                                                  *)
(***************************************************************************)

NumActions == Len(actions)
ParentOf(a) == actions[a].parent_id
Resolved(a) == InDict(processed_actions, a)
\* The place of a in processed_actions (0 when it is not there).
ResolvedAt(a) ==
    IF Resolved(a) THEN CHOOSE i \in 1..Len(processed_actions) :
                            processed_actions[i].id = a
    ELSE 0
LoopOver == issue_actions = <<>> \/ fatal # "none"
CallsOf(op) == {i \in 1..Len(last.calls) : last.calls[i].op = op}
\* The iteration that just ran got as far as the tracker search.
Searched == CallsOf("search") # {}

\* C1: an action with a parent is resolved (create_issue or refresh_issue
\* called for it, its issue recorded in processed_actions) only after its
\* parent was resolved and recorded: in processed_actions the parent stands
\* before the child, and a create_issue call links the parent's issue.
C1_ParentResolvedFirst ==
    /\ \A b \in 1..NumActions :
          (Resolved(b) /\ ParentOf(b) # None) =>
              /\ Resolved(ParentOf(b))
              /\ ResolvedAt(ParentOf(b)) < ResolvedAt(b)
    /\ \A i \in CallsOf("create") \cup CallsOf("refresh") :
          LET b == last.calls[i].issue.action
          IN /\ b = last.action
             /\ Resolved(b)
             /\ ParentOf(b) # None =>
                   /\ ResolvedAt(ParentOf(b)) \in 1..(ResolvedAt(b) - 1)
                   /\ last.calls[i].op = "create" =>
                         last.calls[i].by =
                             DictGet(processed_actions, ParentOf(b)).id

\* A child that stands before its parent in the file was deferred and then
\* resolved after its parent.
C1_Witness ==
    \E b \in 1..NumActions :
        /\ ParentOf(b) \in (b + 1)..NumActions
        /\ last.action = b
        /\ last.outcome \in {"created", "reused"}
        /\ requeued[b] > 0
        /\ ResolvedAt(ParentOf(b)) < ResolvedAt(b)

\* C2 as stated: when the loop is over, every action that declares a parent
\* is resolved to an issue, or the loop ended with "Parent ... not found";
\* and no action was re-appended more than |actions| times.
C2_Original ==
    /\ \A b \in 1..NumActions : requeued[b] <= NumActions
    /\ LoopOver =>
          \A b \in 1..NumActions :
              ParentOf(b) # None =>
                  Resolved(b) \/ fatal = "parent_not_found"

\* C2, amended: the loop ends within |actions|^2 iterations (an iteration
\* can run as long as it has not ended), no action is re-appended more than
\* |actions| times, and when it is over every action that declares a parent
\* is resolved, was dropped as irrelevant (when is false), was left because
\* its new issues are all closed, or the loop ended with a fatal error.
C2_LoopTerminates ==
    /\ iterations <= NumActions * NumActions
    /\ \A b \in 1..NumActions : requeued[b] <= NumActions
    /\ (~LoopOver /\ last = NoIteration) =>
          (Irrelevant(action) \/ ParentMissing(action) \/ Reaches(action))
    /\ LoopOver =>
          \A b \in 1..NumActions :
              ParentOf(b) # None =>
                  \/ Resolved(b)
                  \/ Irrelevant(b)
                  \/ b \in skipped
                  \/ fatal \in {"parent_not_found", "more_than_one",
                                "invalid_respin"}

\* Two actions that name each other as parent: both are deferred once, then
\* the loop ends with "Parent ... not found".
C2_Witness ==
    /\ NumActions = 2
    /\ ParentOf(1) = 2 /\ ParentOf(2) = 1
    /\ fatal = "parent_not_found"
    /\ requeued[1] = 1 /\ requeued[2] = 1

\* The open issues of the last iteration's action that lack the token.
OpenWithoutToken ==
    {IssueKey(last.action, i) : i \in
        {j \in 1..Len(last.related) :
            last.related[j].status = "opened" /\ ~last.related[j].token}}

\* C5: for an action with on_respin = KEEP that has open issues without
\* the current token, the iteration calls no create_issue; and when it
\* resolved the action, a second run against the tracker as this run left it
\* resolves the action to the same issue, again without create_issue
\* (whether or not refresh_issue wrote the token, and whether or not the
\* parent is created in the second run).
C5_KeepIsIdempotent ==
    (Searched /\ last.on_respin = "keep" /\ OpenWithoutToken # {}) =>
        /\ CallsOf("create") = {}
        /\ last.outcome \in {"reused", "more_than_one"}
        /\ last.outcome = "reused" =>
              \A stamped \in BOOLEAN :
              \A recreated \in (IF ParentOf(last.action) = None
                                THEN {FALSE} ELSE BOOLEAN) :
                  LET after == tracker_after(last.action, last.related,
                                             last.calls, stamped)
                      again == new_issues_open(search(after), recreated, "keep")
                  IN /\ ~already_closed(
                            new_issues_kept(search(after), recreated, "keep"))
                     /\ Resolution(again) = "reuse"
                     /\ again[1].id =
                            DictGet(processed_actions, last.action).id

\* An old issue (open, without the token) was re-used under KEEP.
C5_Witness ==
    /\ last.outcome = "reused"
    /\ last.on_respin = "keep"
    /\ DictGet(processed_actions, last.action).id \in OpenWithoutToken

\* C6: when an action with on_respin = CLOSE has an open old issue and a
\* new issue is created for it, drop_obsoleted_issue is called exactly once
\* for the old issue, after create_issue, with obsoleted_by the issue the
\* action is resolved to; no other iteration calls it for that issue, as
\* every call concerns the iteration's own action and a resolved action
\* is not in the queue again.
C6_OldIssueClosedOnce ==
    /\ (last.outcome = "created" /\ last.on_respin = "close") =>
          \A old \in OpenWithoutToken :
              /\ Cardinality({i \in CallsOf("drop") :
                                 last.calls[i].issue = old}) = 1
              /\ \A i \in CallsOf("drop") :
                    /\ last.calls[i].by =
                           DictGet(processed_actions, last.action).id
                    /\ \E j \in CallsOf("create") :
                          /\ j < i
                          /\ last.calls[j].issue = last.calls[i].by
    /\ \A i \in CallsOf("drop") : last.calls[i].issue.action = last.action
    /\ \A a \in 1..NumActions : Resolved(a) => ~InList(issue_actions, a)

\* An action with on_respin = CLOSE was created and its old issue dropped.
C6_Witness ==
    /\ last.outcome = "created"
    /\ last.on_respin = "close"
    /\ OpenWithoutToken # {}
    /\ CallsOf("drop") # {}

\* The open issues that stay new after the respin policy and the closed
\* filter: those with the token (unless the parent was created in this
\* run), and under KEEP the other open ones too.
OpenCandidates ==
    {j \in 1..Len(last.related) :
        /\ last.related[j].status = "opened"
        /\ \/ last.related[j].token /\ ~last.parent_created
           \/ last.on_respin = "keep"}

\* C7: when more than one new open issue remains for an action, the loop
\* ends with the fatal "More than one new" error, and the iteration calls
\* neither create_issue nor refresh_issue nor drop_obsoleted_issue and
\* persists no JiraJob for the action, which stays unresolved; an action is
\* resolved by one call, to one issue.
C7_MoreThanOneNewIsFatal ==
    /\ (Searched /\ Cardinality(OpenCandidates) > 1) =>
          /\ fatal = "more_than_one"
          /\ last.outcome = "more_than_one"
          /\ \A i \in 1..Len(last.calls) : last.calls[i].op = "search"
          /\ ~Resolved(last.action)
          /\ \A j \in jira_jobs : j.action # last.action
    /\ last.outcome \in {"created", "reused"} =>
          /\ Cardinality(CallsOf("create") \cup CallsOf("refresh")) = 1
          /\ Cardinality(OpenCandidates) <= 1
          /\ \A i \in CallsOf("create") \cup CallsOf("refresh") :
                last.calls[i].issue =
                    DictGet(processed_actions, last.action).id

\* The loop stopped on two new open issues.
C7_Witness ==
    /\ last.outcome = "more_than_one"
    /\ Cardinality(OpenCandidates) = 2

\* C14: 'Parent ... not found' is raised for an action only when no
\* progress is possible: its parent is not in processed_actions, and either
\* it is the only action left or no action has left the queue since its
\* previous deferral; every action still in the queue is itself waiting for
\* a parent that is not resolved, so none of them could resolve the chain.
C14_ParentNotFoundOnlyWhenStuck ==
    fatal = "parent_not_found" =>
        /\ ParentOf(last.action) # None
        /\ ~Resolved(ParentOf(last.action))
        /\ \/ issue_actions = <<>>
           \/ /\ requeued[last.action] > 0
              /\ last_queue_length(last.action) = Len(issue_actions)
        /\ \A i \in 1..Len(issue_actions) :
              /\ ~Irrelevant(issue_actions[i])
              /\ ParentMissing(issue_actions[i])
              /\ requeued[issue_actions[i]] > 0

\* The error was raised for an action that had been deferred, with another
\* action still in the queue.
C14_Witness ==
    /\ fatal = "parent_not_found"
    /\ issue_actions # <<>>
    /\ requeued[last.action] > 0
    /\ last.outcome = "parent_not_found"

\* The closed issues of the iteration's action that count as new: they
\* carry the token and the parent was not created in this run.
ClosedCandidates ==
    {j \in 1..Len(last.related) :
        /\ last.related[j].status = "closed"
        /\ last.related[j].token
        /\ ~last.parent_created}

\* C15: with recreate off, an action whose new issues (after the KEEP step)
\* are all closed is skipped: no create_issue, refresh_issue or
\* drop_obsoleted_issue call, no JiraJob, the action stays unresolved; when
\* a new issue is open the iteration goes on with the open ones only; with
\* recreate on no action is skipped for closed issues.
C15_ClosedIssuesSkipAction ==
    Searched =>
        /\ (~recreate /\ ClosedCandidates # {} /\ OpenCandidates = {}) =>
              /\ last.outcome = "already_closed"
              /\ \A i \in 1..Len(last.calls) : last.calls[i].op = "search"
              /\ ~Resolved(last.action)
              /\ \A j \in jira_jobs : j.action # last.action
              /\ fatal = "none"
        /\ last.outcome = "already_closed" =>
              /\ ~recreate
              /\ ClosedCandidates # {}
              /\ OpenCandidates = {}
        /\ (~recreate /\ OpenCandidates # {}) =>
              /\ last.outcome \in {"reused", "more_than_one"}
              /\ Cardinality(OpenCandidates) = 1 => last.outcome = "reused"
              /\ \A i \in CallsOf("refresh") :
                    \E j \in OpenCandidates :
                       last.calls[i].issue = IssueKey(last.action, j)
              /\ CallsOf("create") = {}

\* An action was skipped for a closed new issue.
C15_Witness ==
    /\ last.outcome = "already_closed"
    /\ ClosedCandidates # {}
    /\ last.action \in skipped
    /\ ~Resolved(last.action)

\* The search result of the iteration that just ran, and the keys of the
\* issues its for loop put into new_issues and into old_issues.
SearchResult == search(tracker_issues(last.action, last.related))
ClassifiedNew ==
    {new_issues_found(SearchResult, last.parent_created)[i].id :
        i \in 1..Len(new_issues_found(SearchResult, last.parent_created))}
ClassifiedOld ==
    {old_issues_found(SearchResult, last.parent_created)[i].id :
        i \in 1..Len(old_issues_found(SearchResult, last.parent_created))}

\* C16 as stated: an issue of the search result is new exactly when its
\* description holds the action's token, and old exactly when it lacks the
\* token and is open, whatever was created earlier in the run.
C16_Original ==
    Searched =>
        \A i \in 1..Len(SearchResult) :
            /\ SearchResult[i].key \in ClassifiedNew <=> SearchResult[i].token
            /\ SearchResult[i].key \in ClassifiedOld
                  <=> (~SearchResult[i].token
                       /\ SearchResult[i].status = "opened")

\* C16, amended: an issue of the search result is new exactly when its
\* description holds the action's token and the action has no parent or
\* its parent's issue was not created in this run; every other issue is old
\* exactly when it is open (an open issue with the token is old when the
\* parent was created in this run); no issue is both.
C16_NewUnlessParentRecreated ==
    Searched =>
        \A i \in 1..Len(SearchResult) :
            /\ SearchResult[i].key \in ClassifiedNew
                  <=> (SearchResult[i].token /\ ~last.parent_created)
            /\ SearchResult[i].key \in ClassifiedOld
                  <=> (/\ ~(SearchResult[i].token /\ ~last.parent_created)
                       /\ SearchResult[i].status = "opened")
            /\ ~(/\ SearchResult[i].key \in ClassifiedNew
                 /\ SearchResult[i].key \in ClassifiedOld)

\* An open issue with the token was found for an action whose parent was
\* created in this run, and a new issue was created in its place.
C16_Witness ==
    /\ Searched
    /\ last.parent_created
    /\ last.outcome = "created"
    /\ \E i \in 1..Len(SearchResult) :
          /\ SearchResult[i].token
          /\ SearchResult[i].status = "opened"
          /\ SearchResult[i].key \in ClassifiedOld

\* P is an action that this run leaves unresolved: its when is false, or
\* its new issues were all closed.
LeftUnresolved(parent) ==
    /\ parent \in 1..NumActions
    /\ Irrelevant(parent) \/ parent \in skipped

\* The relevant actions whose parent is left unresolved.
Orphans ==
    {child \in 1..NumActions :
        /\ ~Irrelevant(child)
        /\ ParentOf(child) # child
        /\ LeftUnresolved(ParentOf(child))}

Drops == last = NoIteration /\ last'.outcome = "irrelevant"
Defers == last = NoIteration /\ last'.outcome = "deferred"

\* Nothing but the queue and the deferral map differs after the step.
NoEffectOutsideQueue ==
    /\ last'.calls = <<>>
    /\ jira_jobs' = jira_jobs
    /\ processed_actions' = processed_actions
    /\ created_action_ids' = created_action_ids
    /\ skipped' = skipped
    /\ fatal' = fatal
    /\ actions' = actions

TfApis == {1, 2}

Jobs == 1..schedule_list

\* Execution(...) inside ExecuteJob; return_code -1 and artifacts_url FALSE
\* are the unset fields, exists FALSE is the missing execute- file.
NoCode == -1
ExecuteJob(uuid, api, batch_id, artifacts_url, return_code) ==
    [exists |-> TRUE, request_uuid |-> uuid, request_api |-> api,
     batch_id |-> batch_id, artifacts_url |-> artifacts_url,
     return_code |-> return_code]
NoExecuteJob ==
    [exists |-> FALSE, request_uuid |-> 0, request_api |-> 0, batch_id |-> 0,
     artifacts_url |-> FALSE, return_code |-> NoCode]

\* TFRequest(api=..., uuid=...)
TFRequest(api, uuid) == [api |-> api, uuid |-> uuid]
NoTFRequest == TFRequest(0, 0)

\* schedule_job.request.get_hash(ctx.timestamp): one value per job and run.
get_hash(timestamp) == timestamp

\* Pool.starmap(worker, schedule_list) without chunksize:
\* chunksize, extra = divmod(len(iterable), len(pool) * 4); if extra: += 1
chunksize(n, processes) ==
    (n \div (processes * 4)) + (IF n % (processes * 4) # 0 THEN 1 ELSE 0)

\* The tasks of the pool: schedule_list cut into chunks of chunksize.
Chunks(n, processes) ==
    LET size == chunksize(n, processes)
        count == (n + size - 1) \div size
    IN [c \in 1..count |->
          [i \in 1..(IF c * size <= n THEN size ELSE n - (c - 1) * size) |->
              (c - 1) * size + i]]

\* A run of cmd_execute begins: the schedule- files are listed and handed
\* to the pool; no worker has started.
Begin(n, processes) ==
    /\ schedule_list' = n
    /\ pool_size' = processes
    /\ phase' = "running"
    /\ task_queue' = Chunks(n, processes)
    /\ worker_pool' = [p \in 1..processes |-> <<>>]
    /\ raised' = FALSE
    /\ pc' = [j \in 1..n |-> "pending"]
    /\ tf_request' = [j \in 1..n |-> NoTFRequest]
    /\ execute_job' = [j \in 1..n |-> NoExecuteJob]
    /\ skip_initial_sleep' = [j \in 1..n |-> FALSE]
    /\ initiated' = [j \in 1..n |-> 0]
    /\ saves' = [j \in 1..n |-> <<>>]
    /\ details' = [j \in 1..n |-> "none"]
    /\ polls' = [j \in 1..n |-> <<>>]

\* The first run on a state directory, before any worker has started.
InitExecute ==
    /\ invocation = 1
    /\ continue_execution \in BOOLEAN
    /\ tf_api \in TfApis
    /\ schedule_list \in 1..MaxJobs
    /\ pool_size \in 1..MaxWorkers
    /\ phase = "running"
    /\ task_queue = Chunks(schedule_list, pool_size)
    /\ worker_pool = [p \in 1..pool_size |-> <<>>]
    /\ raised = FALSE
    /\ pc = [j \in Jobs |-> "pending"]
    /\ tf_request = [j \in Jobs |-> NoTFRequest]
    /\ execute_job = [j \in Jobs |-> NoExecuteJob]
    /\ skip_initial_sleep = [j \in Jobs |-> FALSE]
    /\ execute_files = [j \in Jobs |-> NoExecuteJob]
    /\ tf_requests = [j \in Jobs |-> <<>>]
    /\ initiated = [j \in Jobs |-> 0]
    /\ files_at_start = [j \in Jobs |-> NoExecuteJob]
    /\ saves = [j \in Jobs |-> <<>>]
    /\ details = [j \in Jobs |-> "none"]
    /\ polls = [j \in Jobs |-> <<>>]
    /\ JiraIdle
    /\ ReportIdle
    /\ StateDirIdle
    /\ EventIdle

\* The job a pool process runs: the head of its chunk.
Running(p) == phase = "running" /\ worker_pool[p] # <<>>
job(p) == Head(worker_pool[p])

\* start_new_request after `if ctx.continue_execution: ... if
\* execute_job_file.exists():`
start_new_request_Always(j) == TRUE
start_new_request(j) == ~(continue_execution /\ execute_files[j].exists)

\* A pool process takes the next chunk.
TakeChunk(p) ==
    /\ phase = "running"
    /\ worker_pool[p] = <<>>
    /\ task_queue # <<>>
    /\ worker_pool' = [worker_pool EXCEPT ![p] = Head(task_queue)]
    /\ task_queue' = Tail(task_queue)
    /\ UNCHANGED <<invocation, continue_execution, tf_api, schedule_list,
                   pool_size, phase, raised, pc, tf_request, execute_job,
                   skip_initial_sleep, execute_files, tf_requests, initiated,
                   files_at_start, saves>>
    /\ UNCHANGED <<details, polls, jira_vars, report_vars, entry_vars>>

\* tf_request = schedule_job.request.initiate_tf_request(ctx)
Initiate(p) ==
    /\ Running(p)
    /\ pc[job(p)] = "pending"
    /\ start_new_request(job(p))
    /\ tf_requests' = [tf_requests EXCEPT ![job(p)] = Append(@, "running")]
    /\ tf_request' = [tf_request EXCEPT
                         ![job(p)] = TFRequest(tf_api, Len(tf_requests[job(p)]) + 1)]
    /\ initiated' = [initiated EXCEPT ![job(p)] = @ + 1]
    /\ pc' = [pc EXCEPT ![job(p)] = "initiated"]
    /\ UNCHANGED <<invocation, continue_execution, tf_api, schedule_list,
                   pool_size, phase, task_queue, worker_pool, raised,
                   execute_job, skip_initial_sleep, execute_files,
                   files_at_start, saves>>
    /\ UNCHANGED <<details, polls, jira_vars, report_vars, entry_vars>>

\* initiate_tf_request raises: the worker fails, and with it the rest of
\* its chunk (starmapstar stops at the exception).
InitiateFails(p) ==
    /\ Running(p)
    /\ pc[job(p)] = "pending"
    /\ start_new_request(job(p))
    /\ pc' = [pc EXCEPT ![job(p)] = "failed"]
    /\ raised' = TRUE
    /\ worker_pool' = [worker_pool EXCEPT ![p] = <<>>]
    /\ UNCHANGED <<invocation, continue_execution, tf_api, schedule_list,
                   pool_size, phase, task_queue, tf_request, execute_job,
                   skip_initial_sleep, execute_files, tf_requests, initiated,
                   files_at_start, saves>>
    /\ UNCHANGED <<details, polls, jira_vars, report_vars, entry_vars>>

\* execute_job = ExecuteJob(..., execution=Execution(request_uuid=...,
\* request_api=..., batch_id=..., command=...)): return_code and
\* artifacts_url are left unset.
new_execute_job_WithCode(j) ==
    ExecuteJob(tf_request[j].uuid, tf_request[j].api, get_hash(invocation),
               FALSE, 0)
new_execute_job(j) ==
    ExecuteJob(tf_request[j].uuid, tf_request[j].api, get_hash(invocation),
               FALSE, NoCode)

\* ctx.save_execute_job('execute-', execute_job) right after submission
SaveSubmitted(p) ==
    /\ Running(p)
    /\ pc[job(p)] = "initiated"
    /\ execute_job' = [execute_job EXCEPT ![job(p)] = new_execute_job(job(p))]
    /\ execute_files' = [execute_files EXCEPT
                            ![job(p)] = new_execute_job(job(p))]
    /\ saves' = [saves EXCEPT ![job(p)] = Append(@, new_execute_job(job(p)))]
    /\ pc' = [pc EXCEPT ![job(p)] = "polling"]
    /\ UNCHANGED <<invocation, continue_execution, tf_api, schedule_list,
                   pool_size, phase, task_queue, worker_pool, raised,
                   tf_request, skip_initial_sleep, tf_requests, initiated,
                   files_at_start>>
    /\ UNCHANGED <<details, polls, jira_vars, report_vars, entry_vars>>

\* --continue and the execute- file exists: the worker reads it and builds
\* the TFRequest from it.
Resume(p) ==
    /\ Running(p)
    /\ pc[job(p)] = "pending"
    /\ ~start_new_request(job(p))
    /\ execute_job' = [execute_job EXCEPT ![job(p)] = execute_files[job(p)]]
    /\ tf_request' = [tf_request EXCEPT
                         ![job(p)] = TFRequest(execute_files[job(p)].request_api,
                                               execute_files[job(p)].request_uuid)]
    /\ skip_initial_sleep' = [skip_initial_sleep EXCEPT ![job(p)] = TRUE]
    /\ pc' = [pc EXCEPT ![job(p)] = "polling"]
    /\ UNCHANGED <<invocation, continue_execution, tf_api, schedule_list,
                   pool_size, phase, task_queue, worker_pool, raised,
                   execute_files, tf_requests, initiated, files_at_start, saves>>
    /\ UNCHANGED <<details, polls, jira_vars, report_vars, entry_vars>>

\* finished = state in ['complete', 'error']
finished_CompleteOnly(state) == state = "complete"
finished(state) == state \in {"complete", "error"}

\* if not skip_initial_sleep: time.sleep(delay)
sleeps_Never(skip) == FALSE
sleeps(skip) == ~skip

\* The history of a worker's polls after one more: whether the first came
\* after a sleep, and whether every later one did.
polled(history, slept) ==
    IF history = <<>> THEN <<slept, TRUE>>
    ELSE <<history[1], history[2] /\ slept>>

\* `while not finished:` is left: finished is set only inside
\* `if tf_request.details:`.
loop_exits_Unread(request_details) ==
    request_details = "none" \/ finished(request_details)
loop_exits(request_details) ==
    request_details # "none" /\ finished(request_details)

\* One round of the polling loop: the sleep unless skipped, then
\* tf_request.fetch_details(), which finds the request in `state` (it may
\* have ended since the last fetch) and whose details may be unreadable;
\* then `if tf_request.details: ... finished = state in [...]`.
fetch_details(p, readable, state) ==
    /\ Running(p)
    /\ pc[job(p)] = "polling"
    /\ state \in (IF tf_requests[job(p)][tf_request[job(p)].uuid] = "running"
                  THEN {"running", "complete", "error"}
                  ELSE {tf_requests[job(p)][tf_request[job(p)].uuid]})
    /\ tf_requests' = [tf_requests EXCEPT
                          ![job(p)][tf_request[job(p)].uuid] = state]
    /\ details' = [details EXCEPT
                      ![job(p)] = IF readable THEN state ELSE "none"]
    /\ pc' = [pc EXCEPT ![job(p)] =
                 IF loop_exits(details'[job(p)]) THEN "finished"
                 ELSE "polling"]
    /\ polls' = [polls EXCEPT
                    ![job(p)] = polled(@, sleeps(skip_initial_sleep[job(p)]))]
    /\ skip_initial_sleep' = [skip_initial_sleep EXCEPT ![job(p)] = FALSE]
    /\ UNCHANGED <<invocation, continue_execution, tf_api, schedule_list,
                   pool_size, phase, task_queue, worker_pool, raised,
                   tf_request, execute_job, execute_files, initiated,
                   files_at_start, saves>>
    /\ UNCHANGED <<jira_vars, report_vars, entry_vars>>

FetchDetails(p) ==
    \E readable \in BOOLEAN :
    \E state \in {"running", "complete", "error"} :
        fetch_details(p, readable, state)

\* After the loop: `if not tf_request.details: raise Exception('Failed to
\* read details ...')`, which ends the worker and its chunk; otherwise
\* execute_job.execution.artifacts_url = ...; return_code = 0;
\* ctx.save_execute_job('execute-', execute_job); the worker returns and
\* the process goes on with its chunk.
\* execute_job.execution.return_code = 0 ("we pretend return_code to be 0"),
\* whatever state the request ended in
return_code_OfState(request_details) ==
    IF request_details = "error" THEN 1 ELSE 0
return_code(request_details) == 0

Complete(p) ==
    /\ Running(p)
    /\ pc[job(p)] = "finished"
    /\ IF details[job(p)] = "none"
       THEN /\ pc' = [pc EXCEPT ![job(p)] = "no details"]
            /\ raised' = TRUE
            /\ worker_pool' = [worker_pool EXCEPT ![p] = <<>>]
            /\ UNCHANGED <<execute_job, execute_files, saves>>
       ELSE /\ LET done == [execute_job[job(p)] EXCEPT !.artifacts_url = TRUE,
                                                       !.return_code =
                                                           return_code(details[job(p)])]
               IN /\ execute_job' = [execute_job EXCEPT ![job(p)] = done]
                  /\ execute_files' = [execute_files EXCEPT ![job(p)] = done]
                  /\ saves' = [saves EXCEPT ![job(p)] = Append(@, done)]
            /\ pc' = [pc EXCEPT ![job(p)] = "returned"]
            /\ worker_pool' = [worker_pool EXCEPT ![p] = Tail(@)]
            /\ UNCHANGED raised
    /\ UNCHANGED <<invocation, continue_execution, tf_api, schedule_list,
                   pool_size, phase, task_queue, tf_request,
                   skip_initial_sleep, tf_requests, initiated, files_at_start>>
    /\ polls' = [polls EXCEPT ![job(p)] = <<>>]
    /\ UNCHANGED <<details, jira_vars, report_vars, entry_vars>>

\* starmap returns once every chunk is done: it re-raises a worker's
\* exception, or cmd_execute prints 'Done'.
StarmapReturns ==
    /\ phase = "running"
    /\ task_queue = <<>>
    /\ \A p \in 1..pool_size : worker_pool[p] = <<>>
    /\ phase' = IF raised THEN "error" ELSE "done"
    /\ UNCHANGED <<invocation, continue_execution, tf_api, schedule_list,
                   pool_size, task_queue, worker_pool, raised, pc, tf_request,
                   execute_job, skip_initial_sleep, execute_files, tf_requests,
                   initiated, files_at_start, saves>>
    /\ UNCHANGED <<details, polls, jira_vars, report_vars, entry_vars>>

\* The execute process is interrupted: the pool and its workers are gone,
\* the files and the service's requests stay.
Interrupt ==
    /\ phase = "running"
    /\ phase' = "interrupted"
    /\ UNCHANGED <<invocation, continue_execution, tf_api, schedule_list,
                   pool_size, task_queue, worker_pool, raised, pc, tf_request,
                   execute_job, skip_initial_sleep, execute_files, tf_requests,
                   initiated, files_at_start, saves>>
    /\ UNCHANGED <<details, polls, jira_vars, report_vars, entry_vars>>

\* `newa execute` is run again on the same state directory.
Invoke ==
    /\ phase \in {"done", "error", "interrupted"}
    /\ invocation < MaxInvocations
    /\ schedule_list <= MaxRerunJobs
    /\ invocation' = invocation + 1
    /\ continue_execution' \in BOOLEAN
    /\ tf_api' \in TfApis
    /\ Begin(schedule_list, pool_size)
    /\ files_at_start' = execute_files
    /\ UNCHANGED <<execute_files, tf_requests>>
    /\ UNCHANGED <<jira_vars, report_vars, entry_vars>>

\* Runs of `newa execute`, one after the other, on one state directory.
NextExecute ==
    \/ \E p \in 1..pool_size : TakeChunk(p)
    \/ \E p \in 1..pool_size : Initiate(p)
    \/ \E p \in 1..pool_size : InitiateFails(p)
    \/ \E p \in 1..pool_size : SaveSubmitted(p)
    \/ \E p \in 1..pool_size : Resume(p)
    \/ \E p \in 1..pool_size : FetchDetails(p)
    \/ \E p \in 1..pool_size : Complete(p)
    \/ StarmapReturns
    \/ Interrupt
    \/ Invoke

SpecExecute == InitExecute /\ [][NextExecute]_vars

\* A fetch that finds the request ended and reads its details.
FetchTerminal(p) ==
    \E state \in {"complete", "error"} : fetch_details(p, TRUE, state)

\* The pool's processes keep running their workers (each is a process of
\* its own, blocked on nothing but its request), and a request that is
\* polled for ever is found ended, with readable details, at some fetch.
FairExecute ==
    \A p \in 1..MaxWorkers :
        /\ WF_vars(p \in 1..pool_size /\ SaveSubmitted(p))
        /\ WF_vars(p \in 1..pool_size /\ FetchTerminal(p))
        /\ WF_vars(p \in 1..pool_size /\ Complete(p))

\* The runs whose workers are followed to their end.
InitExecuteFair == InitExecute /\ schedule_list <= MaxPolledJobs

SpecExecuteFair == InitExecuteFair /\ [][NextExecute]_vars /\ FairExecute

(***************************************************************************)
(* cmd_jira without --issue-config, cmd_schedule, cmd_report               *)
(***************************************************************************)

\* Strings are sequences of characters.
JIRA_NONE_ID == <<"_", "N", "O", "_", "I", "S", "S", "U", "E">>

\* The values of --issue: not given, or the key of an issue that exists.
IssueOptions == {<<>>, <<"P", "-", "1">>}

\* artifact_job.short_id and request.id, by number.
Digit(n) == <<"1", "2", "3", "4", "5", "6", "7", "8", "9">>[n]
short_id(event) == <<"E", Digit(event)>>
request_id(n) == <<"R", "E", "Q", "-", Digit(n)>>

\* if issue: new_issue = Issue(issue) else: new_issue = Issue(JIRA_NONE_ID)
new_issue_Empty(issue_option) == issue_option
new_issue(issue_option) ==
    IF issue_option # <<>> THEN issue_option ELSE JIRA_NONE_ID

\* f'{short_id}%{jira_id}'
record_id(short, jira_id) == short \o <<"%">> \o jira_id

\* record_id.split('%')[-1]
split_last(record) ==
    LET at == {i \in 1..Len(record) : record[i] = "%"}
    IN IF at = {} THEN record
       ELSE SubSeq(record, (CHOOSE i \in at : \A k \in at : i >= k) + 1,
                   Len(record))

\* The issue-configs of parentless actions: for each action whether its
\* when holds and whether it has a job_recipe.
ParentlessConfigs ==
    UNION {[1..n -> [when : BOOLEAN, job_recipe : BOOLEAN]] :
              n \in 1..MaxActions}

\* --arch: not given, or a list of architectures.
ArchOptions == {<<>>, <<"s390x">>}

\* Arch.architectures(): the platform default set.
DefaultArchs == <<"x86_64", "aarch64">>

\* The recipes: the values of the arch dimension the recipe declares (none
\* when it declares no arch dimension) and the number of value combinations
\* of its other dimensions.
Recipes ==
    [arch : {<<>>, <<"ppc64le">>}, others : 1..(MaxRequests - 1)]

\* The options and files of the pipeline's commands; nothing has run yet.
\* cmd_jira ignores --issue when --issue-config is given.
InitReport ==
    /\ command = "event"
    /\ artifact_jobs = <<>>
    /\ issue_config \in {<<>>} \cup ParentlessConfigs
    /\ arch \in ArchOptions
    /\ recipe \in Recipes
    /\ create_issue_calls = <<>>
    /\ issue \in (IF issue_config # <<>> THEN {<<>>} ELSE IssueOptions)
    /\ jira_files = <<>>
    /\ schedule_files = <<>>
    /\ report_execute_jobs = <<>>
    /\ jira_request_mapping = <<>>
    /\ reported = <<>>
    /\ lookups = <<>>
    /\ JiraIdle
    /\ ExecuteIdle
    /\ StateDirIdle
    /\ EventIdle

\* EventType, and what the events of one cmd_event run give: for compose
\* ids one ArtifactJob each without erratum, for an erratum id one
\* ArtifactJob for each of its RPM releases.
EventType == {"compose", "erratum"}

\* erratum.archs of the releases of an erratum: none, or a list.
ErratumArchs == {<<>>, <<"x86_64", "ppc64le", "s390x">>}

\* ArtifactJob(event=..., erratum=..., compose=...) of the n-th event; a
\* compose event has no erratum.
NoErratum == [exists |-> FALSE, archs |-> <<>>]
Erratum(archs) == [exists |-> TRUE, archs |-> archs]
ArtifactJob(n, type_, erratum) ==
    [short_id |-> short_id(n), event |-> [type_ |-> type_, id |-> n],
     erratum |-> erratum, compose |-> <<"C", Digit(n)>>]

\* JiraJob(event=..., erratum=..., compose=..., jira=..., recipe=Recipe(url))
JiraJob(artifact_job, jira, url) ==
    [short_id |-> artifact_job.short_id, event |-> artifact_job.event,
     erratum |-> artifact_job.erratum, compose |-> artifact_job.compose,
     jira |-> jira, recipe |-> url]

\* cmd_event with ids of one type.
Event ==
    /\ command = "event"
    /\ \E type_ \in EventType, n \in 1..MaxEvents :
       \E erratum \in (IF type_ = "erratum"
                       THEN {Erratum(archs) : archs \in ErratumArchs}
                       ELSE {NoErratum}) :
          artifact_jobs' = [e \in 1..n |-> ArtifactJob(e, type_, erratum)]
    /\ command' = "jira"
    /\ UNCHANGED <<create_issue_calls, issue, jira_files, schedule_files,
                   report_execute_jobs, jira_request_mapping, reported>>
    /\ UNCHANGED <<entry_vars, jira_vars, execute_vars, lookups,
                   issue_config, arch, recipe>>

\* cmd_event without ids and without init- files: 'Missing event IDs!'
EventWithoutIds ==
    /\ command = "event"
    /\ command' = "fatal"
    /\ UNCHANGED <<artifact_jobs, create_issue_calls, issue, jira_files,
                   schedule_files, report_execute_jobs, jira_request_mapping,
                   reported>>
    /\ UNCHANGED <<entry_vars, jira_vars, execute_vars, lookups,
                   issue_config, arch, recipe>>

\* cmd_jira, the else branch of `if issue_config:` for every ArtifactJob.
JiraWithoutConfig ==
    /\ command = "jira"
    /\ issue_config = <<>>
    /\ jira_files' = [e \in 1..Len(artifact_jobs) |->
                         JiraJob(artifact_jobs[e], new_issue(issue), 0)]
    /\ command' = "schedule"
    /\ UNCHANGED <<artifact_jobs, create_issue_calls, issue, schedule_files,
                   report_execute_jobs, jira_request_mapping, reported>>
    /\ UNCHANGED <<entry_vars, jira_vars, execute_vars, lookups,
                   issue_config, arch, recipe>>

\* The key the tracker gives the n-th issue it creates.
issue_key(n) == <<"P", "-", Digit(n)>>

\* The (ArtifactJob, action) pairs of a cmd_jira run in the order the loops
\* reach them, and those whose action is relevant.
Reached(jobs, config) ==
    [i \in 1..(Len(jobs) * Len(config)) |->
        [job |-> ((i - 1) \div Len(config)) + 1,
         action |-> ((i - 1) % Len(config)) + 1]]
Relevant(jobs, config) ==
    LET When(x) == config[x.action].when
    IN SelectSeq(Reached(jobs, config), When)

\* cmd_jira with an issue-config of parentless actions on a tracker that
\* holds no related issue: every relevant action finds no new issue and no
\* old issue, so create_issue is called for it, and the JiraJob is saved
\* when the action has a job_recipe.
JiraWithConfig ==
    /\ command = "jira"
    /\ issue_config # <<>>
    /\ LET created == Relevant(artifact_jobs, issue_config)
           Recipe(i) == issue_config[created[i].action].job_recipe
           saved == SelectSeq([i \in 1..Len(created) |-> i], Recipe)
       IN /\ create_issue_calls' =
                [i \in 1..Len(created) |-> issue_key(i)]
          /\ jira_files' =
                [i \in 1..Len(saved) |->
                    JiraJob(artifact_jobs[created[saved[i]].job],
                            issue_key(saved[i]), created[saved[i]].action)]
    /\ command' = "schedule"
    /\ UNCHANGED <<artifact_jobs, issue, schedule_files, report_execute_jobs,
                   jira_request_mapping, reported>>
    /\ UNCHANGED <<entry_vars, jira_vars, execute_vars, lookups,
                   issue_config, arch, recipe>>

\* architectures: --arch, else the erratum's archs, else the default.
architectures(given, jira_job) ==
    IF given # <<>> THEN given
    ELSE IF jira_job.erratum.exists /\ jira_job.erratum.archs # <<>>
         THEN jira_job.erratum.archs
    ELSE DefaultArchs

\* if 'arch' not in config.dimensions: the architectures become the arch
\* dimension.
arch_dimension_Override(config, archs) == archs
arch_dimension(config, archs) ==
    IF config.arch = <<>> THEN archs ELSE config.arch

\* config.build_requests(...): one request for each combination of the
\* values of the dimensions, with ids in the order of the expansion.
build_requests_One(archs, others) ==
    <<[id |-> request_id(1), arch |-> archs[1], variant |-> 1]>>
build_requests(archs, others) ==
    [i \in 1..(Len(archs) * others) |->
        [id |-> request_id(i),
         arch |-> archs[((i - 1) \div others) + 1],
         variant |-> ((i - 1) % others) + 1]]

\* ScheduleJob(event=jira_job.event, erratum=jira_job.erratum,
\* compose=jira_job.compose, jira=jira_job.jira, recipe=jira_job.recipe,
\* request=request)
ScheduleJob_NoErratum(jira_job, request) ==
    [short_id |-> jira_job.short_id, event |-> jira_job.event,
     erratum |-> NoErratum, compose |-> jira_job.compose,
     jira |-> jira_job.jira, recipe |-> jira_job.recipe,
     request |-> request.id, arch |-> request.arch,
     variant |-> request.variant]
ScheduleJob(jira_job, request) ==
    [short_id |-> jira_job.short_id, event |-> jira_job.event,
     erratum |-> jira_job.erratum, compose |-> jira_job.compose,
     jira |-> jira_job.jira, recipe |-> jira_job.recipe,
     request |-> request.id, arch |-> request.arch,
     variant |-> request.variant]

\* The ScheduleJobs of the JiraJobs from the first on, in the order they
\* are saved.
requests_of(jira_job) ==
    build_requests(arch_dimension(recipe, architectures(arch, jira_job)),
                   recipe.others)
RECURSIVE schedule_jobs(_)
schedule_jobs(jira_jobs_left) ==
    IF jira_jobs_left = <<>> THEN <<>>
    ELSE [r \in 1..Len(requests_of(Head(jira_jobs_left))) |->
             ScheduleJob(Head(jira_jobs_left),
                         requests_of(Head(jira_jobs_left))[r])]
         \o schedule_jobs(Tail(jira_jobs_left))

\* cmd_schedule: for each JiraJob the recipe is expanded into requests and
\* a ScheduleJob is saved for each request.
Schedule ==
    /\ command = "schedule"
    /\ Len(schedule_jobs(jira_files)) <= MaxScheduleJobs
    /\ schedule_files' = schedule_jobs(jira_files)
    /\ command' = "execute"
    /\ UNCHANGED <<artifact_jobs, create_issue_calls, issue, jira_files,
                   report_execute_jobs, jira_request_mapping, reported>>
    /\ UNCHANGED <<entry_vars, jira_vars, execute_vars, lookups,
                   issue_config, arch, recipe>>

\* The terminal states of a remote request.
TerminalStates == {"complete", "error"}

\* cmd_execute run to its end: worker's ExecuteJob(jira=schedule_job.jira,
\* request=schedule_job.request, ...) for each ScheduleJob, written when
\* its request has reached a terminal state.
Execute ==
    /\ command = "execute"
    /\ \E state \in [1..Len(schedule_files) -> TerminalStates] :
          report_execute_jobs' =
              [n \in 1..Len(schedule_files) |->
                  [schedule_job |-> schedule_files[n],
                   short_id |-> schedule_files[n].short_id,
                   jira |-> schedule_files[n].jira,
                   request |-> schedule_files[n].request,
                   state |-> state[n]]]
    /\ command' = "report"
    /\ UNCHANGED <<artifact_jobs, create_issue_calls, issue, jira_files,
                   schedule_files, jira_request_mapping, reported>>
    /\ UNCHANGED <<entry_vars, jira_vars, execute_vars, lookups,
                   issue_config, arch, recipe>>

\* record_id in jira_request_mapping
Position(mapping, record) ==
    {k \in 1..Len(mapping) : mapping[k].record_id = record}

\* d[request_id] = launches for the dict of one record_id: a new key goes
\* to the end, a key that is there keeps its place.
RequestsPut(requests, request, launches) ==
    IF \E i \in 1..Len(requests) : requests[i].request = request
    THEN [i \in 1..Len(requests) |->
             IF requests[i].request = request
             THEN [request |-> request, launches |-> launches]
             ELSE requests[i]]
    ELSE Append(requests, [request |-> request, launches |-> launches])

\* jira_request_mapping[record_id][request_id] = launches, the key made
\* first when it is new.
MappingPut(mapping, record, request, launches) ==
    IF Position(mapping, record) = {}
    THEN Append(mapping, [record_id |-> record,
                          requests |-> RequestsPut(<<>>, request, launches)])
    ELSE [mapping EXCEPT ![CHOOSE k \in Position(mapping, record) : TRUE].requests =
             RequestsPut(@, request, launches)]

\* cmd_report, one round of `for execute_job in ctx.load_execute_jobs`:
\* rp.find_launches_by_attr finds some number of launches.
ReportLoad ==
    /\ command = "report"
    /\ report_execute_jobs # <<>>
    /\ \E launches \in 0..MaxLaunches :
          /\ jira_request_mapping' =
                MappingPut(jira_request_mapping,
                           record_id(Head(report_execute_jobs).short_id,
                                     Head(report_execute_jobs).jira),
                           Head(report_execute_jobs).request, launches)
          /\ lookups' = Append(lookups,
                               [job |-> Head(report_execute_jobs),
                                launches |-> launches])
    /\ report_execute_jobs' = Tail(report_execute_jobs)
    /\ UNCHANGED <<command, artifact_jobs, create_issue_calls, issue,
                   jira_files, schedule_files,
                   reported>>
    /\ UNCHANGED <<entry_vars, jira_vars, execute_vars, issue_config, arch,
                   recipe>>

\* The key the second loop of cmd_report works on.
InKeyLoop ==
    /\ command = "report"
    /\ report_execute_jobs = <<>>
    /\ Len(reported) < Len(jira_request_mapping)
key == jira_request_mapping[Len(reported) + 1]

\* sorted(jira_request_mapping[record_id].keys()): the request ids are
\* 'REQ-' and a digit, so their order is the order of the digits.
request_number(id) == CHOOSE n \in 1..9 : request_id(n) = id
RECURSIVE sorted(_)
sorted(requests) ==
    IF requests = <<>> THEN <<>>
    ELSE LET least == CHOOSE i \in 1..Len(requests) :
                         \A k \in 1..Len(requests) :
                            request_number(requests[i].request)
                               <= request_number(requests[k].request)
             IN <<requests[least]>>
            \o sorted([i \in 1..(Len(requests) - 1) |->
                          requests[IF i < least THEN i ELSE i + 1]])

\* The launches find_launches_by_attr gave for a request.
launches_found(r) == [i \in 1..r.launches |-> [request |-> r.request, n |-> i]]

\* description: '<jira_id>: <n> requests in total' and, for each request
\* in sorted order, COMPLETED when its launches are not empty, else MISSING.
status_Completed(r) == "COMPLETED"
status(r) == IF Len(launches_found(r)) # 0 THEN "COMPLETED" ELSE "MISSING"
description(k) ==
    [jira_id |-> split_last(k.record_id),
     total |-> Len(k.requests),
     lines |-> [i \in 1..Len(k.requests) |->
                  [request |-> sorted(k.requests)[i].request,
                   status |-> status(sorted(k.requests)[i])]]]

\* launch_list after the loop over the sorted requests of the key
RECURSIVE extend(_)
extend(requests) ==
    IF requests = <<>> THEN <<>>
    ELSE launches_found(Head(requests)) \o extend(Tail(requests))
launch_list(k) == Len(extend(sorted(k.requests)))

\* The launch merge_launches gives, and rp.get_launch_url.
merged_launch == [request |-> <<>>, n |-> 0]
get_launch_url(launch) == [url |-> launch]

\* launch_urls: of the merged launch when the merge gave one, else of
\* every launch found.
launch_urls(k, merge) ==
    LET list == IF merge = "merged" THEN <<merged_launch>>
                ELSE extend(sorted(k.requests))
    IN [i \in 1..Len(list) |-> get_launch_url(list[i])]

\* ctx.logger.error(...) of the round: no launches, or the merge gave
\* nothing.
logged_error(k, merge) ==
    IF launch_list(k) = 0
    THEN "Failed to find any related ReportPortal launches"
    ELSE IF merge = "failed" THEN "Failed to merge ReportPortal launches"
    ELSE "none"

\* What one round of the loop did: the description, merge_launches, the
\* launch urls and add_comment.
Round(k, merge, comment) ==
    [record_id |-> k.record_id, jira_id |-> split_last(k.record_id),
     description |-> description(k), merge |-> merge,
     error |-> logged_error(k, merge),
     launch_urls |-> launch_urls(k, merge), comment |-> comment]

\* if len(launch_list) > 1: merged_launch = rp.merge_launches(...)
Merges_AnyLaunch(k) ==
    IF launch_list(k) > 0 THEN {"merged", "failed"} ELSE {"none"}
Merges(k) ==
    IF launch_list(k) > 1 THEN {"merged", "failed"} ELSE {"none"}

\* if not len(launch_list): 'Failed to find any related ReportPortal launches'
ReportNoLaunches ==
    /\ InKeyLoop
    /\ launch_list(key) = 0
    /\ reported' = Append(reported, Round(key, "none", "none"))
    /\ UNCHANGED <<command, artifact_jobs, create_issue_calls, issue,
                   jira_files, schedule_files,
                   report_execute_jobs, jira_request_mapping>>
    /\ UNCHANGED <<entry_vars, jira_vars, execute_vars, lookups,
                   issue_config, arch, recipe>>

\* jira_id == JIRA_NONE_ID: nothing is reported to Jira.
ReportWithoutComment ==
    /\ InKeyLoop
    /\ launch_list(key) > 0
    /\ split_last(key.record_id) = JIRA_NONE_ID
    /\ \E merge \in Merges(key) :
          reported' = Append(reported, Round(key, merge, "none"))
    /\ UNCHANGED <<command, artifact_jobs, create_issue_calls, issue,
                   jira_files, schedule_files,
                   report_execute_jobs, jira_request_mapping>>
    /\ UNCHANGED <<entry_vars, jira_vars, execute_vars, lookups,
                   issue_config, arch, recipe>>

\* jira_connection.add_comment(jira_id, ...) succeeds.
ReportComment ==
    /\ InKeyLoop
    /\ launch_list(key) > 0
    /\ split_last(key.record_id) # JIRA_NONE_ID
    /\ \E merge \in Merges(key) :
          reported' = Append(reported, Round(key, merge, "posted"))
    /\ UNCHANGED <<command, artifact_jobs, create_issue_calls, issue,
                   jira_files, schedule_files,
                   report_execute_jobs, jira_request_mapping>>
    /\ UNCHANGED <<entry_vars, jira_vars, execute_vars, lookups,
                   issue_config, arch, recipe>>

\* except jira.JIRAError: raise Exception("Unable to add a comment ...")
ReportCommentFails ==
    /\ InKeyLoop
    /\ launch_list(key) > 0
    /\ split_last(key.record_id) # JIRA_NONE_ID
    /\ \E merge \in Merges(key) :
          reported' = Append(reported, Round(key, merge, "failed"))
    /\ command' = "fatal"
    /\ UNCHANGED <<artifact_jobs, create_issue_calls, issue, jira_files,
                   schedule_files,
                   report_execute_jobs, jira_request_mapping>>
    /\ UNCHANGED <<entry_vars, jira_vars, execute_vars, lookups,
                   issue_config, arch, recipe>>

\* The loop over the keys is through: cmd_report returns.
ReportReturns ==
    /\ command = "report"
    /\ report_execute_jobs = <<>>
    /\ Len(reported) = Len(jira_request_mapping)
    /\ command' = "done"
    /\ UNCHANGED <<artifact_jobs, create_issue_calls, issue, jira_files,
                   schedule_files,
                   report_execute_jobs, jira_request_mapping, reported>>
    /\ UNCHANGED <<entry_vars, jira_vars, execute_vars, lookups,
                   issue_config, arch, recipe>>

NextReport ==
    \/ Event
    \/ EventWithoutIds
    \/ JiraWithoutConfig
    \/ JiraWithConfig
    \/ Schedule
    \/ Execute
    \/ ReportLoad
    \/ ReportNoLaunches
    \/ ReportWithoutComment
    \/ ReportComment
    \/ ReportCommentFails
    \/ ReportReturns

SpecReport == InitReport /\ [][NextReport]_vars

(***************************************************************************)
(* Properties of cmd_execute                                               *)
(***************************************************************************)

\* A worker that found an execute- file under --continue.
Resumes(j) ==
    continue_execution /\ files_at_start[j].exists /\ pc[j] # "pending"

\* C3: a worker that runs with continue enabled and finds the ExecuteJob
\* record of its ScheduleJob makes no call to initiate_tf_request, polls the
\* request built from the persisted request_uuid and request_api, and the
\* record it writes (on completion too) keeps the persisted batch_id.
C3_ResumeDoesNotResubmit ==
    \A j \in Jobs :
        Resumes(j) =>
            /\ initiated[j] = 0
            /\ tf_request[j] = TFRequest(files_at_start[j].request_api,
                                         files_at_start[j].request_uuid)
            /\ execute_files[j].batch_id = files_at_start[j].batch_id
            /\ execute_files[j].request_uuid = files_at_start[j].request_uuid
            /\ pc[j] = "returned" => execute_files[j].return_code = 0

\* A resumed worker has completed a submitted-but-unfinished execution
\* whose endpoint is not the one of this run's settings.
C3_Witness ==
    \E j \in Jobs :
        /\ Resumes(j)
        /\ files_at_start[j].return_code = NoCode
        /\ files_at_start[j].request_api # tf_api
        /\ files_at_start[j].batch_id # get_hash(invocation)
        /\ pc[j] = "returned"

\* C4: an interrupt after a worker's remote submission finds the ExecuteJob
\* record of that request (uuid and endpoint) on disk, and a --continue run
\* submits no ScheduleJob the service already holds a request for.
C4_InterruptLeavesRecord ==
    /\ phase = "interrupted" =>
          \A j \in Jobs :
              initiated[j] > 0 =>
                  /\ execute_files[j].exists
                  /\ execute_files[j].request_uuid = tf_request[j].uuid
                  /\ execute_files[j].request_api = tf_request[j].api
    /\ continue_execution =>
          \A j \in Jobs : initiated[j] > 0 => Len(tf_requests[j]) = initiated[j]

\* C8: when a worker has failed, starmap returns with every other
\* ScheduleJob run to a terminal remote state and its completed record
\* saved, and the run ends in the error, not in 'Done'.
C8_WorkerFailureIsIsolated ==
    (raised /\ phase \in {"done", "error"}) =>
        /\ phase = "error"
        /\ \A j \in Jobs :
              pc[j] # "failed" =>
                  /\ pc[j] = "returned"
                  /\ execute_files[j].return_code = 0
                  /\ finished(tf_requests[j][execute_files[j].request_uuid])

\* The job's worker started from scratch in this run: it called
\* initiate_tf_request.
FromScratch(j) == initiated[j] = 1

\* The record as it is persisted right after submission, and as it is
\* persisted on completion.
IsSubmittedRecord(r, j) ==
    /\ r.exists
    /\ r.request_uuid = tf_request[j].uuid
    /\ r.request_uuid # 0
    /\ r.request_api = tf_api
    /\ r.batch_id = get_hash(invocation)
    /\ r.artifacts_url = FALSE
    /\ r.return_code = NoCode
IsCompletedRecord(r) == r.artifacts_url = TRUE /\ r.return_code = 0

\* C17: a worker that starts from scratch persists nothing before the
\* submission, then the record with request_uuid, request_api and batch_id
\* set and return_code and artifacts_url unset, and, once it has fetched a
\* terminal state, the same record with artifacts_url and return_code set:
\* two saves in this order when it returns; and no record with a
\* return_code is persisted unless its request was fetched in a terminal
\* state.
C17_PersistedTwiceInOrder ==
    phase # "idle" =>
        \A j \in Jobs :
            /\ (FromScratch(j) /\ pc[j] = "initiated") => saves[j] = <<>>
            /\ (FromScratch(j) /\ pc[j] \in {"polling", "finished"}) =>
                  /\ Len(saves[j]) = 1
                  /\ IsSubmittedRecord(saves[j][1], j)
                  /\ execute_files[j] = saves[j][1]
            /\ (FromScratch(j) /\ pc[j] = "returned") =>
                  /\ Len(saves[j]) = 2
                  /\ IsSubmittedRecord(saves[j][1], j)
                  /\ IsCompletedRecord(saves[j][2])
                  /\ saves[j][2] = [saves[j][1] EXCEPT !.artifacts_url = TRUE,
                                                       !.return_code = 0]
                  /\ execute_files[j] = saves[j][2]
            /\ \A k \in 1..Len(saves[j]) :
                  saves[j][k].return_code # NoCode =>
                      /\ pc[j] = "returned"
                      /\ k = Len(saves[j])
                      /\ finished(tf_requests[j][saves[j][k].request_uuid])
            /\ execute_files[j].return_code # NoCode =>
                  finished(tf_requests[j][execute_files[j].request_uuid])

\* A worker started from scratch, saw its request end and returned after
\* its second save.
C17_Witness ==
    /\ phase # "idle"
    /\ \E j \in Jobs :
          /\ FromScratch(j)
          /\ pc[j] = "returned"
          /\ Len(saves[j]) = 2
          /\ tf_requests[j][tf_request[j].uuid] = "error"

\* The worker of job j is past its submission or its resume and has not
\* returned; it has returned with the completed record on disk.
InWorker(j) ==
    /\ j \in Jobs
    /\ phase = "running"
    /\ pc[j] \in {"initiated", "polling", "finished"}
Returned(j) ==
    /\ j \in Jobs
    /\ pc[j] = "returned"
    /\ execute_files[j].artifacts_url = TRUE
    /\ execute_files[j].return_code = 0

\* The polling loop is left exactly on readable details with a terminal
\* state: a worker still in the loop has no details or details of a request
\* that has not ended, a worker past the loop has details whose state is
\* 'complete' or 'error'.
LoopExitsOnTerminalDetails ==
    phase # "idle" =>
        \A j \in Jobs :
            /\ pc[j] = "polling" => details[j] \notin {"complete", "error"}
            /\ pc[j] \in {"finished", "returned"} =>
                  details[j] \in {"complete", "error"}

\* C18: the polling loop exits if and only if a fetch returned details with
\* state 'complete' or 'error', any other fetch leads to another poll; and
\* if the request is eventually found ended with readable details, every
\* worker that has begun writes its completed ExecuteJob and returns,
\* unless the execute process is interrupted.
C18_PollingEndsOnTerminalState ==
    /\ []LoopExitsOnTerminalDetails
    /\ \A j \in 1..MaxPolledJobs :
          InWorker(j) ~> (Returned(j) \/ phase = "interrupted")

\* A worker fetched unreadable details of an ended request, polled again,
\* and returned after a later fetch.
C18_Witness ==
    /\ phase # "idle"
    /\ \E j \in Jobs :
          /\ Returned(j)
          /\ details[j] = "complete"
          /\ \E i \in Jobs : /\ pc[i] = "polling"
                             /\ details[i] = "none"
                             /\ tf_requests[i][tf_request[i].uuid] = "error"

\* C25: a worker that has left the polling loop holds details, and their
\* state is 'complete' or 'error'; no worker ends in the error 'Failed to
\* read details' that is raised after the loop.
C25_DetailsPresentAfterLoop ==
    phase # "idle" =>
        \A j \in Jobs :
            /\ pc[j] # "no details"
            /\ pc[j] \in {"finished", "returned"} =>
                  /\ details[j] # "none"
                  /\ details[j] = "complete" \/ details[j] = "error"
                  /\ tf_requests[j][tf_request[j].uuid] = details[j]

\* A resumed worker has left the polling loop on an 'error' state and
\* stands before the check of the details.
C25_Witness ==
    /\ phase = "running"
    /\ \E j \in Jobs :
          /\ Resumes(j)
          /\ pc[j] = "finished"
          /\ details[j] = "error"

\* The records that the worker of job j saved after its polling loop.
CompletedSaves(j) ==
    {saves[j][i] : i \in {k \in 1..Len(saves[j]) : saves[j][k].artifacts_url = TRUE}}

\* C28: the completed record that a worker writes has return_code 0, when
\* the request ended in 'complete' and when it ended in 'error' alike.
C28_ReturnCodeAlwaysZero ==
    \A j \in Jobs :
        /\ \A r \in CompletedSaves(j) : r.return_code = 0
        /\ pc[j] = "returned" =>
              /\ details[j] \in {"complete", "error"}
              /\ CompletedSaves(j) # {}
              /\ execute_files[j].artifacts_url = TRUE
              /\ execute_files[j].return_code = 0

\* Two workers have returned, one after 'complete' and one after 'error',
\* and the two files carry the same return code.
C28_Witness ==
    \E j, k \in Jobs :
        /\ pc[j] = "returned" /\ details[j] = "complete"
        /\ pc[k] = "returned" /\ details[k] = "error"
        /\ CompletedSaves(j) # {} /\ CompletedSaves(k) # {}
        /\ execute_files[j].return_code = execute_files[k].return_code

\* C26: every fetch of a worker that submitted its request comes after a
\* sleep; a worker that resumed fetches once at once and sleeps before
\* each later fetch; with continue enabled and no ExecuteJob record the
\* worker submits and polls as a fresh one.
C26_SleepBeforeFetch ==
    phase # "idle" =>
        \A j \in Jobs :
            /\ (FromScratch(j) /\ polls[j] # <<>>) =>
                  polls[j] = <<TRUE, TRUE>>
            /\ (Resumes(j) /\ polls[j] # <<>>) =>
                  polls[j] = <<FALSE, TRUE>>
            /\ (/\ continue_execution
                /\ ~files_at_start[j].exists
                /\ pc[j] \notin {"pending", "failed"}) =>
                  /\ FromScratch(j)
                  /\ ~Resumes(j)
            /\ pc[j] = "finished" => polls[j] # <<>>
            /\ polls[j] # <<>> => (FromScratch(j) \/ Resumes(j))

\* A run with continue enabled in which one worker resumed and another,
\* without a record, submitted, and both have polled and poll on.
C26_Witness ==
    /\ phase # "idle"
    /\ continue_execution
    /\ \E j, i \in Jobs :
          /\ Resumes(j)
          /\ polls[j] = <<FALSE, TRUE>>
          /\ details[j] = "running"
          /\ ~files_at_start[i].exists
          /\ FromScratch(i)
          /\ polls[i] = <<TRUE, TRUE>>
          /\ details[i] = "running"

\* How often job j stands in the chunks still queued or held by a pool
\* process: the worker calls for it that are running or still to come.
Occurrences(j) ==
    Cardinality({<<c, i>> \in (1..Len(task_queue)) \X (1..schedule_list) :
                    i <= Len(task_queue[c]) /\ task_queue[c][i] = j})
    + Cardinality({<<q, i>> \in (1..pool_size) \X (1..schedule_list) :
                    i <= Len(worker_pool[q]) /\ worker_pool[q][i] = j})

\* No schedule- file is given to two worker calls, no worker submits more
\* than one request, no two workers run on the same file (so none writes
\* the other's execute- record), and the execute- record a worker finds
\* when it starts is the one the run began with.
WorkersShareNothing ==
    phase \in {"running", "done", "error"} =>
        /\ \A j \in Jobs :
              /\ Occurrences(j) <= 1
              /\ pc[j] = "pending" =>
                    /\ saves[j] = <<>>
                    /\ execute_files[j] = files_at_start[j]
              /\ pc[j] \in {"initiated", "polling", "finished"} =>
                    \E q \in 1..pool_size : Running(q) /\ job(q) = j
              /\ pc[j] \in {"returned", "failed"} => Occurrences(j) = 0
              /\ initiated[j] <= 1
              /\ execute_files[j] # files_at_start[j] =>
                    /\ saves[j] # <<>>
                    /\ execute_files[j] = saves[j][Len(saves[j])]
        /\ \A q, r \in 1..pool_size :
              (q # r /\ Running(q) /\ Running(r)) => job(q) # job(r)

\* C19: when starmap has returned, every schedule- file was handed to
\* exactly one worker call; each worker submitted at most one request, and
\* no worker wrote or read the execute- record of another.
C19_EveryFileOneWorkerCall ==
    /\ WorkersShareNothing
    /\ phase \in {"done", "error"} =>
          \A j \in Jobs : pc[j] \in {"returned", "failed"}

(***************************************************************************)
(* Properties of cmd_report                                                *)
(***************************************************************************)

\* cmd_report is over, by return or by exception.
ReportOver == command \in {"done", "fatal"}

\* The rounds of the key loop that ran for a record_id.
RoundsOf(record) == {r \in 1..Len(reported) : reported[r].record_id = record}

\* C9: when add_comment fails for one composite key, cmd_report still
\* processes every other composite key of the run: merges its launches
\* where there are several and posts its comment.
C9_CommentFailureIsIsolated ==
    ReportOver =>
        \A k \in 1..Len(jira_request_mapping) :
            /\ RoundsOf(jira_request_mapping[k].record_id) # {}
            /\ \A r \in RoundsOf(jira_request_mapping[k].record_id) :
                  /\ launch_list(jira_request_mapping[k]) > 1
                        => reported[r].merge # "none"
                  /\ (/\ launch_list(jira_request_mapping[k]) > 0
                      /\ reported[r].jira_id # JIRA_NONE_ID)
                        => reported[r].comment # "none"

LookupsOf(record) ==
    {l \in 1..Len(lookups) :
        record_id(lookups[l].job.short_id, lookups[l].job.jira) = record}

\* The status lines of a description with a status.
LinesWith(d, status_line) ==
    {i \in 1..Len(d.lines) : d.lines[i].status = status_line}

\* C11: the description of every composite key has one status line per
\* ExecuteJob request sharing the key, COMPLETED exactly for the requests
\* whose lookup gave a non-empty launch list and MISSING exactly for those
\* whose lookup gave an empty list, and its total is the number of those
\* requests.
C11_DescriptionCountsRequests ==
    \A r \in 1..Len(reported) :
        LET d == reported[r].description
            jobs == LookupsOf(reported[r].record_id)
        IN /\ d.total = Cardinality(jobs)
           /\ Len(d.lines) = Cardinality(jobs)
           /\ \A l \in jobs :
                 /\ Cardinality({i \in 1..Len(d.lines) :
                       d.lines[i].request = lookups[l].job.request}) = 1
                 /\ \A i \in 1..Len(d.lines) :
                       d.lines[i].request = lookups[l].job.request =>
                          /\ d.lines[i].status = "COMPLETED"
                                <=> lookups[l].launches > 0
                          /\ d.lines[i].status = "MISSING"
                                <=> lookups[l].launches = 0

\* Three ExecuteJobs share a key, two with launches and one without: two
\* lines say COMPLETED and one MISSING.
C11_Witness ==
    \E r \in 1..Len(reported) :
        /\ Cardinality(LookupsOf(reported[r].record_id)) = 3
        /\ Cardinality({l \in LookupsOf(reported[r].record_id) :
                           lookups[l].launches > 0}) = 2
        /\ Cardinality(LinesWith(reported[r].description, "COMPLETED")) = 2
        /\ Cardinality(LinesWith(reported[r].description, "MISSING")) = 1

\* The number of launches the lookups found for a composite key.
RECURSIVE LaunchesIn(_)
LaunchesIn(ls) ==
    IF ls = {} THEN 0
    ELSE LET l == CHOOSE x \in ls : TRUE
         IN lookups[l].launches + LaunchesIn(ls \ {l})

\* C12: for every composite key merge_launches is called exactly when two
\* or more launches were found for it; with one launch no merge is called
\* and a comment lists the url of that launch; with none an error is logged
\* and no comment is posted.
C12_MergeOnlySeveralLaunches ==
    \A r \in 1..Len(reported) :
        LET found == LaunchesIn(LookupsOf(reported[r].record_id))
        IN /\ reported[r].merge # "none" <=> found >= 2
           /\ found = 1 =>
                 /\ Len(reported[r].launch_urls) = 1
                 /\ reported[r].launch_urls[1].url # merged_launch
                 /\ \E l \in LookupsOf(reported[r].record_id) :
                       reported[r].launch_urls[1].url.request
                          = lookups[l].job.request /\ lookups[l].launches = 1
           /\ reported[r].merge = "merged" =>
                 reported[r].launch_urls = <<get_launch_url(merged_launch)>>
           /\ found = 0 =>
                 /\ reported[r].error # "none"
                 /\ reported[r].comment = "none"

\* One run posted a comment with the single launch of a key unmerged and
\* merged the launches of another key.
C12_Witness ==
    /\ \E r \in 1..Len(reported) :
          /\ LaunchesIn(LookupsOf(reported[r].record_id)) = 1
          /\ reported[r].comment = "posted"
          /\ reported[r].merge = "none"
    /\ \E r \in 1..Len(reported) :
          /\ reported[r].merge = "merged"
          /\ reported[r].comment = "posted"

(***************************************************************************)
(* Properties of the pipeline                                              *)
(***************************************************************************)

\* How far the pipeline is: the commands that have run.
Stage ==
    CASE command = "event" -> 0
      [] command = "jira" -> 1
      [] command = "schedule" -> 2
      [] command = "execute" -> 3
      [] command = "report" -> 4
      [] OTHER -> 5

\* One compose-type event, an issue-config with one parentless action whose
\* when holds and that names a recipe, and a recipe over two architectures.
OneComposeTwoArchs ==
    /\ Len(artifact_jobs) = 1
    /\ artifact_jobs[1].event.type_ = "compose"
    /\ Len(issue_config) = 1
    /\ issue_config[1].when
    /\ issue_config[1].job_recipe
    /\ recipe.others = 1
    /\ Len(arch_dimension(recipe, architectures(arch, artifact_jobs[1]))) = 2

\* The add_comment calls of cmd_report, posted or failed.
Comments == {r \in 1..Len(reported) : reported[r].comment # "none"}

\* C13: event, jira, schedule, execute and report run in order on one
\* compose-type event with one parentless relevant action, an empty tracker
\* and a recipe over two architectures give one ArtifactJob, one
\* create_issue call, one JiraJob, two ScheduleJobs and two ExecuteJobs; when
\* both requests ended 'complete' and each has a launch, one comment is
\* made, to the created issue, with both requests COMPLETED.
C13_OneEventEndToEnd ==
    OneComposeTwoArchs =>
        /\ Stage >= 2 => Len(create_issue_calls) = 1 /\ Len(jira_files) = 1
        /\ Stage >= 3 => Len(schedule_files) = 2
        /\ Stage >= 4 => Len(report_execute_jobs) + Len(lookups) = 2
        /\ (/\ Stage >= 5
            /\ \A l \in 1..Len(lookups) :
                  lookups[l].job.state = "complete" /\ lookups[l].launches > 0)
           => /\ Cardinality(Comments) = 1
              /\ \A r \in Comments :
                    /\ reported[r].jira_id = create_issue_calls[1]
                    /\ command = "done" => reported[r].comment = "posted"
                    /\ reported[r].description.total = 2
                    /\ LinesWith(reported[r].description, "COMPLETED") = {1, 2}

\* The scenario has run to the end of cmd_report with both requests
\* complete and a launch for each.
C13_Witness ==
    /\ OneComposeTwoArchs
    /\ command = "done"
    /\ Len(lookups) = 2
    /\ \A l \in 1..Len(lookups) :
          lookups[l].job.state = "complete" /\ lookups[l].launches > 0
    /\ \E r \in Comments : reported[r].comment = "posted"

\* The schedule- files saved for the k-th JiraJob.
FilesOf(k) ==
    {f \in 1..Len(schedule_files) :
        /\ schedule_files[f].short_id = jira_files[k].short_id
        /\ schedule_files[f].jira = jira_files[k].jira}

\* The schedule- file carries the JiraJob's event, erratum, compose, issue
\* and recipe.
SameLinkage(schedule_job, jira_job) ==
    /\ schedule_job.event = jira_job.event
    /\ schedule_job.erratum = jira_job.erratum
    /\ schedule_job.compose = jira_job.compose
    /\ schedule_job.jira = jira_job.jira
    /\ schedule_job.recipe = jira_job.recipe

\* C20: after cmd_schedule every schedule- file belongs to one JiraJob and
\* carries its event, erratum, compose, issue and recipe, and each JiraJob
\* has one schedule- file for each request of the recipe's expansion; if
\* the recipe has no arch dimension and no other multi-valued dimension, a
\* JiraJob whose architectures are N in number has N schedule- files, one
\* for each architecture, alike in everything but the arch (and the
\* request's id).
C20_OneScheduleJobPerRequest ==
    Stage >= 3 =>
        /\ \A f \in 1..Len(schedule_files) :
              \E k \in 1..Len(jira_files) :
                  /\ f \in FilesOf(k)
                  /\ SameLinkage(schedule_files[f], jira_files[k])
                  /\ \A other \in 1..Len(jira_files) :
                        f \in FilesOf(other) => other = k
        /\ \A k \in 1..Len(jira_files) :
              /\ Cardinality(FilesOf(k)) = Len(requests_of(jira_files[k]))
              /\ \A r \in 1..Len(requests_of(jira_files[k])) :
                    Cardinality({f \in FilesOf(k) :
                        schedule_files[f].request
                            = requests_of(jira_files[k])[r].id}) = 1
              /\ (recipe.arch = <<>> /\ recipe.others = 1) =>
                    /\ Cardinality(FilesOf(k))
                          = Len(architectures(arch, jira_files[k]))
                    /\ \A a \in 1..Len(architectures(arch, jira_files[k])) :
                          Cardinality({f \in FilesOf(k) :
                              schedule_files[f].arch
                                  = architectures(arch, jira_files[k])[a]}) = 1
                    /\ \A f, g \in FilesOf(k) :
                          /\ f # g => schedule_files[f].arch # schedule_files[g].arch
                          /\ [schedule_files[f] EXCEPT
                                 !.arch = schedule_files[g].arch,
                                 !.request = schedule_files[g].request]
                             = schedule_files[g]

\* cmd_schedule has saved two schedule- files for a JiraJob of a compose,
\* one for x86_64 and one for aarch64, from a recipe without dimensions.
C20_Witness ==
    /\ Stage >= 3
    /\ recipe.arch = <<>>
    /\ recipe.others = 1
    /\ arch = <<>>
    /\ \E k \in 1..Len(jira_files) :
          /\ ~jira_files[k].erratum.exists
          /\ {schedule_files[f].arch : f \in FilesOf(k)} = {"x86_64", "aarch64"}
          /\ Cardinality(FilesOf(k)) = 2

\* The values of a list.
Values(list) == {list[i] : i \in 1..Len(list)}

\* The architectures of the schedule- files saved for the k-th JiraJob.
ArchsOf(k) == {schedule_files[f].arch : f \in FilesOf(k)}

\* C21: the schedule- files of a JiraJob are for the recipe's own arch
\* dimension when the recipe declares one, --arch given or not; otherwise
\* for the --arch values when any is given, otherwise for the erratum's
\* architectures when the JiraJob has an erratum with a non-empty arch
\* list, otherwise for the default set.
C21_ArchitectureSelection ==
    Stage >= 3 =>
        \A k \in 1..Len(jira_files) :
            ArchsOf(k) =
                IF recipe.arch # <<>> THEN Values(recipe.arch)
                ELSE IF arch # <<>> THEN Values(arch)
                ELSE IF /\ jira_files[k].erratum.exists
                        /\ jira_files[k].erratum.archs # <<>>
                     THEN Values(jira_files[k].erratum.archs)
                ELSE {"x86_64", "aarch64"}

\* cmd_schedule ran with --arch on a JiraJob with an erratum that lists
\* architectures and a recipe that declares its own arch dimension.
C21_Witness ==
    /\ Stage >= 3
    /\ recipe.arch # <<>>
    /\ arch # <<>>
    /\ Values(arch) # Values(recipe.arch)
    /\ \E k \in 1..Len(jira_files) :
          /\ jira_files[k].erratum.exists
          /\ jira_files[k].erratum.archs # <<>>
          /\ ArchsOf(k) = Values(recipe.arch)

(***************************************************************************)
(* Properties of main and get_state_dir                                    *)
(***************************************************************************)

\* The step is an invocation that calls get_state_dir() or
\* get_state_dir(use_ppid=True).
CallsGetStateDir(use_ppid) ==
    /\ main_runs' = main_runs + 1
    /\ last_main'.use_ppid = use_ppid
    /\ last_main'.state_dir = <<>>

\* The directories run-N of the parent directory, those with the marker of
\* the ppid, and the number N of a name run-N.
RunDirs == {e \in parent_dir.entries :
               e.kind = "dir" /\ STATEDIR_NAME_PATTERN(e.name)}
MarkedRunDirs(ppid) == {e \in RunDirs : ppid \in e.ppid_files}
NumberOf(e) == int(group(e.name))
FirstUnused ==
    CHOOSE n \in 1..(Cardinality(parent_dir.entries) + 1) :
        /\ Found(parent_dir, run(n)) = {}
        /\ \A k \in 1..(n - 1) : Found(parent_dir, run(k)) # {}

RequestedErrata ==
    IF event_pc = "start" THEN ids_of(errata_ids, compose_ids, "erratum")
    ELSE errata_ids
RequestedComposes ==
    IF event_pc = "start" THEN ids_of(compose_ids, errata_ids, "compose")
    ELSE compose_ids

\* C22: when an advisory id is requested and no Errata Tool URL is
\* configured, cmd_event ends in the error with no ErrataTool call made and
\* no ArtifactJob saved, compose ids or not; without ids and without init-
\* records it ends in 'Missing event IDs!' and saves nothing.
C22_EventFailsBeforeAnyCall ==
    event_pc # "idle" =>
        /\ (RequestedErrata # <<>> /\ ~et_url) =>
              /\ event_pc \in {"start", "error"}
              /\ event_pc = "error" =>
                    event_error = "Errata Tool URL is not configured!"
              /\ get_errata_calls = <<>>
              /\ event_files = <<>>
        /\ (RequestedErrata = <<>> /\ RequestedComposes = <<>>) =>
              /\ event_pc \in {"start", "error"}
              /\ event_pc = "error" => event_error = "Missing event IDs!"
              /\ get_errata_calls = <<>>
              /\ event_files = <<>>
        /\ event_pc = "error" =>
              \/ RequestedErrata # <<>> /\ ~et_url
              \/ RequestedErrata = <<>> /\ RequestedComposes = <<>>

\* cmd_event was given advisory ids and compose ids without an Errata Tool
\* URL and has failed.
C22_Witness ==
    /\ event_pc = "error"
    /\ event_error = "Errata Tool URL is not configured!"
    /\ errata_ids # <<>>
    /\ compose_ids # <<>>
    /\ event_files = <<>>

\* The component of each build ErrataTool knows.
ComponentOf(build) ==
    CASE build = Builds[1] -> <<"p", "k", "g">>
      [] build = Builds[2] -> <<"m", "y", "-", "i", "m", "g">>
      [] build = Builds[3] -> <<"t", "o", "o", "l">>

\* The ArtifactJobs cmd_event is to save for one erratum, for a list of
\* errata and for the ErrataTool calls made so far, in this order.
JobsOfErratum(id, erratum) ==
    IF erratum.content_type = "docker"
    THEN [i \in 1..Len(erratum.builds) |->
             [event |-> EventOf("erratum", id),
              builds |-> <<erratum.builds[i]>>,
              components |-> <<ComponentOf(erratum.builds[i])>>,
              release |-> erratum.release]]
    ELSE <<[event |-> EventOf("erratum", id), builds |-> erratum.builds,
            components |-> [i \in 1..Len(erratum.builds) |->
                               ComponentOf(erratum.builds[i])],
            release |-> erratum.release]>>
RECURSIVE JobsOfErrata(_, _)
JobsOfErrata(id, list) ==
    IF list = <<>> THEN <<>>
    ELSE JobsOfErratum(id, Head(list)) \o JobsOfErrata(id, Tail(list))
RECURSIVE JobsOfCalls(_)
JobsOfCalls(calls) ==
    IF calls = <<>> THEN <<>>
    ELSE JobsOfCalls(SubSeq(calls, 1, Len(calls) - 1))
         \o JobsOfErrata(calls[Len(calls)].id, calls[Len(calls)].errata)

\* The event- files of advisories, reduced to event, builds, components
\* and release.
ErratumFiles ==
    LET files == SelectSeq(event_files,
                           LAMBDA saved : saved.event.type_ = "erratum")
    IN [f \in 1..Len(files) |->
           [event |-> files[f].event, builds |-> files[f].erratum.builds,
            components |-> files[f].erratum.components,
            release |-> files[f].erratum.release]]

\* C23: the event- files of the advisories are, in order, for each erratum
\* returned: for docker content one for each build bi, with build list [bi]
\* and component list [component of bi], and for RPM or module content one
\* with the full build list; while cmd_event runs, what is saved is the
\* beginning of that list, so no saved record changes later.
C23_OneArtifactJobPerBuild ==
    event_pc # "idle" =>
        /\ Len(ErratumFiles) <= Len(JobsOfCalls(get_errata_calls))
        /\ ErratumFiles
              = SubSeq(JobsOfCalls(get_errata_calls), 1, Len(ErratumFiles))
        /\ event_pc \in {"composes", "done"} =>
              ErratumFiles = JobsOfCalls(get_errata_calls)

\* cmd_event has saved the three ArtifactJobs of a docker erratum with
\* three builds and gone on.
C23_Witness ==
    /\ event_pc = "done"
    /\ Len(get_errata_calls) = 1
    /\ Len(get_errata_calls[1].errata) = 1
    /\ get_errata_calls[1].errata[1].content_type = "docker"
    /\ Len(get_errata_calls[1].errata[1].builds) = 3
    /\ Len(ErratumFiles) = 3
    /\ ErratumFiles[2].components = <<<<"m", "y", "-", "i", "m", "g">>>>

====
